---- MODULE Spec2Model ----
(***************************************************************************)
(* Cavro resume analysis core: ATS scorer, text normaliser, JD matcher.    *)
(*                                                                         *)
(* Every operation of the core is a synchronous function of its text       *)
(* inputs.  The state of the model is the last call made (op), its input   *)
(* (inp) and what the call produced (out): a returned value or a raised    *)
(* exception.                                                              *)
(*                                                                         *)
(* A resume text is a sequence of lines joined by "\n", followed by `pad'  *)
(* copies of PlainLine.  The lines are concrete strings; what each regular *)
(* expression of the source finds in a line is tabulated per line.         *)
(* Sub-scores are kept as integer multiples of 1/SubDen and final scores   *)
(* in hundredths, so that the arithmetic of the source is exact.           *)
(***************************************************************************)
EXTENDS Integers, Sequences, FiniteSets, TLC

VARIABLES op, inp, out

vars == <<op, inp, out>>

(***************************************************************************)
(* Bounds                                                                  *)
(***************************************************************************)
MaxLines == 3

None == "<None>"

Min(a, b) == IF a < b THEN a ELSE b
Max(a, b) == IF a > b THEN a ELSE b

\* sums and concatenations are folded in halves, so that the depth of an
\* evaluation grows with the logarithm of the length
RECURSIVE SumSeq(_)
SumSeq(s) ==
    IF s = <<>> THEN 0
    ELSE IF Len(s) = 1 THEN s[1]
    ELSE SumSeq(SubSeq(s, 1, Len(s) \div 2)) + SumSeq(SubSeq(s, Len(s) \div 2 + 1, Len(s)))

RECURSIVE Flatten(_)
Flatten(ss) ==
    IF ss = <<>> THEN <<>>
    ELSE IF Len(ss) = 1 THEN ss[1]
    ELSE Flatten(SubSeq(ss, 1, Len(ss) \div 2))
         \o Flatten(SubSeq(ss, Len(ss) \div 2 + 1, Len(ss)))

Range(s) == {s[i] : i \in 1..Len(s)}

(***************************************************************************)
(* The lines resume texts are made of                                      *)
(***************************************************************************)
BlankLine == ""
PlainLine == "Worked on things"

SeqsUpTo(S, n) == UNION {[1..k -> S] : k \in 0..n}

\* the lines of the text as text.split('\n') yields them
FullLines(t) == t.lines \o [i \in 1..t.pad |-> PlainLine]

\* `not text': the joined string has no character
IsEmptyText(t) == FullLines(t) \in {<<>>, <<BlankLine>>}

\* the check without .strip(): only the empty string counts as blank
IsBlankTextNoStrip(t) == IsEmptyText(t)

\* `not text.strip()': every line is blank
IsBlankText(t) == \A i \in 1..Len(FullLines(t)) : FullLines(t)[i] = BlankLine

(***************************************************************************)
(* ATSScorer tables (ats_score.py, ATSScorer.__init__)                     *)
(***************************************************************************)
Categories == <<"keywords", "action_verbs", "contact_info", "work_experience",
                "education", "skills", "achievements", "formatting">>

\* the table renormalised to sum to 100
keyword_weights_sum100 ==
    [keywords |-> 25, action_verbs |-> 15, contact_info |-> 10,
     work_experience |-> 15, education |-> 10, skills |-> 10,
     achievements |-> 10, formatting |-> 5]

keyword_weights == [keywords |-> 30, action_verbs |-> 20, contact_info |-> 10,
                    work_experience |-> 20, education |-> 10, skills |-> 15,
                    achievements |-> 15, formatting |-> 10]

CategoryTitle == [keywords |-> "Keywords", action_verbs |-> "Action Verbs",
                  contact_info |-> "Contact Info",
                  work_experience |-> "Work Experience",
                  education |-> "Education", skills |-> "Skills",
                  achievements |-> "Achievements", formatting |-> "Formatting"]

KeywordCategories == <<"languages", "frameworks", "databases", "cloud", "methodologies">>

common_keywords ==
    [languages |-> {"python", "java", "javascript", "c++", "c#", "swift", "kotlin", "go", "rust", "typescript"},
     frameworks |-> {"django", "flask", "react", "angular", "vue", "node.js", ".net", "spring", "tensorflow", "pytorch"},
     databases |-> {"sql", "mysql", "postgresql", "mongodb", "redis", "oracle", "dynamodb", "cassandra"},
     cloud |-> {"aws", "azure", "gcp", "docker", "kubernetes", "terraform", "ansible", "jenkins"},
     methodologies |-> {"agile", "scrum", "devops", "ci/cd", "tdd", "bdd", "microservices", "rest", "graphql"}]

AllKeywords == UNION {common_keywords[c] : c \in DOMAIN common_keywords}

contact_info_patterns == <<"email", "phone", "linkedin", "github">>

section_headers == {"experience", "work history", "employment", "education",
                    "skills", "projects", "certifications", "awards",
                    "publications", "languages", "interests"}

\* sub-scores are integer multiples of 1/SubDen: found/45*100 and
\* count*(100/15) are ninths
SubDen == 9

(***************************************************************************)
(* What the regular expressions of ats_score.py find in a line: keywords   *)
(* and verbs are the catalog entries found by re.search(\b..\b); contact   *)
(* the contact_info_patterns that match; degrees and institutions the      *)
(* numbers of matches of degree_pattern and institution_pattern; has_year  *)
(* whether (?:19|20)\d{2} matches; headers the section_headers found;      *)
(* bullet_styles the markers found by ^\s*([•\-*])\s+; all_caps whether    *)
(* the line matches ^[A-Z\s]+$; date_kind what group end_month of          *)
(* date_pattern holds ("none" without match, "open" for no end);           *)
(* start_date is f"{start_month} {start_year}"; title and company are the  *)
(* matches of job_title_pattern and company_pattern; is_bullet and bullet  *)
(* the match of ^[•\-*]\s+(.+) and the record built from it (tech counts   *)
(* the technical terms); achievements the matches of the quantifier        *)
(* patterns; skills_header, header_entries, line_entries and section_colon *)
(* describe the line for the section pattern of _score_skills.             *)
(***************************************************************************)
NoFacts ==
    [keywords |-> {}, verbs |-> {}, contact |-> {}, degrees |-> 0,
     institutions |-> 0, has_year |-> FALSE, headers |-> {},
     bullet_styles |-> {}, starts_with_word |-> TRUE, all_caps |-> FALSE,
     date_kind |-> "none", dates |-> None, start_date |-> None, title |-> None,
     company |-> None, is_bullet |-> FALSE,
     bullet |-> [text |-> "", has_metrics |-> FALSE, action_verb |-> None, tech |-> 0],
     achievements |-> {}, skills_header |-> FALSE, header_entries |-> 0,
     line_entries |-> 1, section_colon |-> FALSE]

LineFacts ==
    BlankLine :> [NoFacts EXCEPT !.starts_with_word = FALSE, !.line_entries = 0]
    @@ PlainLine :> NoFacts
    @@ "Senior Software Engineer at Acme Corp" :>
         [NoFacts EXCEPT !.title = "Senior Software Engineer", !.company = "Acme Corp"]
    @@ "Jan 2020 - Present" :>
         [NoFacts EXCEPT !.has_year = TRUE, !.date_kind = "Present", !.dates = "Jan 2020 - Present",
                         !.start_date = "Jan 2020"]
    @@ "Jan 2019 - present" :>
         [NoFacts EXCEPT !.has_year = TRUE, !.date_kind = "present", !.dates = "Jan 2019 - present",
                         !.start_date = "Jan 2019"]
    @@ "Jan 2018 - Dec 2019" :>
         [NoFacts EXCEPT !.has_year = TRUE, !.date_kind = "explicit", !.dates = "Jan 2018 - Dec 2019",
                         !.start_date = "Jan 2018"]
    @@ "Mar 2017 -" :>
         [NoFacts EXCEPT !.has_year = TRUE, !.date_kind = "open", !.dates = "Mar 2017 -",
                         !.start_date = "Mar 2017"]
    @@ "Experience and Education" :>
         [NoFacts EXCEPT !.headers = {"experience", "education"}, !.company = "ion"]
    @@ "Junior Developer at Initech Jan 2015 - Present" :>
         [NoFacts EXCEPT !.has_year = TRUE, !.date_kind = "Present",
                         !.dates = "Jan 2015 - Present", !.start_date = "Jan 2015",
                         !.title = "Junior Developer", !.company = "Initech"]
    @@ "Associate Developer at Initech Jan 2016 - Present" :>
         [NoFacts EXCEPT !.has_year = TRUE, !.date_kind = "Present",
                         !.dates = "Jan 2016 - Present", !.start_date = "Jan 2016",
                         !.title = "Associate Developer", !.company = "e Developer at Initech"]
    @@ "Senior Developer at Initech Jan 2017 - Present" :>
         [NoFacts EXCEPT !.has_year = TRUE, !.date_kind = "Present",
                         !.dates = "Jan 2017 - Present", !.start_date = "Jan 2017",
                         !.title = "Senior Developer", !.company = "Initech"]
    @@ "Lead Developer at Initech Jan 2019 - Present" :>
         [NoFacts EXCEPT !.has_year = TRUE, !.date_kind = "Present",
                         !.dates = "Jan 2019 - Present", !.start_date = "Jan 2019",
                         !.title = "Lead Developer", !.company = "Initech"]
    @@ "Principal Developer at Initech Jan 2021 - Present" :>
         [NoFacts EXCEPT !.has_year = TRUE, !.date_kind = "Present",
                         !.dates = "Jan 2021 - Present", !.start_date = "Jan 2021",
                         !.title = "Principal Developer", !.company = "Initech"]
    @@ "- Built REST services with Python" :>
         [NoFacts EXCEPT !.keywords = {"python", "rest"}, !.verbs = {"built"},
                         !.bullet_styles = {"-"}, !.starts_with_word = FALSE,
                         !.is_bullet = TRUE,
                         !.bullet = [text |-> "Built REST services with Python",
                                     has_metrics |-> FALSE,
                                     action_verb |-> "built", tech |-> 2]]
    @@ "- Increased throughput by 30%" :>
         [NoFacts EXCEPT !.verbs = {"increased"}, !.bullet_styles = {"-"},
                         !.starts_with_word = FALSE, !.is_bullet = TRUE,
                         !.bullet = [text |-> "Increased throughput by 30%",
                                     has_metrics |-> TRUE,
                                     action_verb |-> "increased", tech |-> 0],
                         !.achievements = {"30"}]
    @@ "Skills: ," :>
         [NoFacts EXCEPT !.headers = {"skills"}, !.skills_header = TRUE]
    @@ "Skills: Python" :>
         [NoFacts EXCEPT !.keywords = {"python"}, !.headers = {"skills"},
                         !.skills_header = TRUE, !.header_entries = 1]
    @@ "Skills: Python, Java, Go, Rust" :>
         [NoFacts EXCEPT !.keywords = {"python", "java", "go", "rust"},
                         !.headers = {"skills"}, !.skills_header = TRUE,
                         !.header_entries = 4, !.line_entries = 4]
    @@ "Skills: Python, Java, Go, Rust, Django, Flask, React, SQL, MySQL, Redis, AWS, Azure, Docker, Agile, Scrum" :>
         [NoFacts EXCEPT !.keywords = {"python", "java", "go", "rust", "django",
                                       "flask", "react", "sql", "mysql", "redis",
                                       "aws", "azure", "docker", "agile", "scrum"},
                         !.headers = {"skills"}, !.skills_header = TRUE,
                         !.header_entries = 15, !.line_entries = 15]
    @@ "jane@x.com 555-123-4567 linkedin.com/jane github.com/jane MBA and PhD, State University and City College 2015" :>
         [NoFacts EXCEPT !.contact = {"email", "phone", "linkedin", "github"},
                         !.degrees = 2, !.institutions = 2, !.has_year = TRUE,
                         !.company = "x.com", !.line_entries = 2]
    @@ "Achieved, administered, analyzed, architected, built, collaborated, created, delivered, designed, developed, engineered, enhanced, established, expanded, implemented award patent talk using python java javascript swift kotlin go rust typescript django flask react angular vue node.js spring tensorflow pytorch sql mysql postgresql mongodb redis oracle dynamodb cassandra aws azure gcp docker kubernetes terraform ansible jenkins agile scrum devops ci/cd tdd bdd microservices rest graphql" :>
         [NoFacts EXCEPT !.keywords = AllKeywords \ {"c++", "c#", ".net"},
                         !.verbs = {"achieved", "administered", "analyzed",
                                    "architected", "built", "collaborated",
                                    "created", "delivered", "designed",
                                    "developed", "engineered", "enhanced",
                                    "established", "expanded", "implemented"},
                         !.company = "ent talk using python java javascript swift kotlin go rust typescript d",
                         !.achievements = {"award", "patent", "talk"},
                         !.line_entries = 15]

\* the lines that stand for a whole position: title, company and dates
PositionLines ==
    {"Junior Developer at Initech Jan 2015 - Present",
     "Associate Developer at Initech Jan 2016 - Present",
     "Senior Developer at Initech Jan 2017 - Present",
     "Lead Developer at Initech Jan 2019 - Present",
     "Principal Developer at Initech Jan 2021 - Present"}

\* the lines the texts of the ATS specification are made of
AtsLines ==
    DOMAIN LineFacts \ (PositionLines
                          \cup {"- Built REST services with Python", "Skills: ,",
                                "Skills: Python", "Skills: Python, Java, Go, Rust"})

(***************************************************************************)
(* ATSScorer._extract_work_experience: the line-oriented state machine     *)
(***************************************************************************)
\* the named groups date_pattern defines
DateGroups == {"start_month", "start_year", "end_month"}

\* the 'end_date' expression of the new entry reads group 'end_year' when
\* end_month matched and is not exactly 'Present'; re raises IndexError for a
\* group the pattern does not define
EndDateRaises(kind) ==
    kind \notin {"open", "Present"} /\ "end_year" \notin DateGroups

EndDate(kind) == IF kind = "Present" THEN "Present" ELSE None

NewEntry(line) ==
    [dates |-> LineFacts[line].dates, start_date |-> LineFacts[line].start_date,
     end_date |-> EndDate(LineFacts[line].date_kind), title |-> None, company |-> None,
     bullet_points |-> <<>>]

\* `if date_match:' closes the open entry and opens a new one
WithDate(line, st) ==
    IF LineFacts[line].date_kind = "none" THEN st
    ELSE [st EXCEPT !.work = IF st.cur # <<>> THEN Append(@, st.cur[1]) ELSE @,
                    !.cur = <<NewEntry(line)>>]

\* the title is set when an entry is open and has none yet
WithTitle(line, st) ==
    IF LineFacts[line].title # None /\ st.cur # <<>> /\ st.cur[1].title = None
    THEN [st EXCEPT !.cur[1].title = LineFacts[line].title] ELSE st

\* the company of every matching line is stored: the last one wins
WithCompanyOverwrite(line, st) ==
    IF LineFacts[line].company # None /\ st.cur # <<>>
    THEN [st EXCEPT !.cur[1].company = LineFacts[line].company] ELSE st

\* the company is set when an entry is open and has none yet
WithCompany(line, st) ==
    IF LineFacts[line].company # None /\ st.cur # <<>> /\ st.cur[1].company = None
    THEN [st EXCEPT !.cur[1].company = LineFacts[line].company] ELSE st

\* a bullet line is appended to the open entry
WithBullet(line, st) ==
    IF LineFacts[line].is_bullet /\ st.cur # <<>>
    THEN [st EXCEPT !.cur[1].bullet_points = Append(@, LineFacts[line].bullet)] ELSE st

\* one iteration of `for line in lines'; cur is <<>> for the empty dict and
\* <<entry>> for an open entry
ExtractStep(line, st) ==
    IF LineFacts[line].date_kind # "none" /\ EndDateRaises(LineFacts[line].date_kind)
    THEN [st EXCEPT !.raised = TRUE]
    ELSE WithBullet(line, WithCompany(line, WithTitle(line, WithDate(line, st))))

\* `for line in lines': the iterations in order, the second half of the
\* lines starting from the state the first half leaves; an exception ends
\* the loop
RECURSIVE ExtractLoop(_, _)
ExtractLoop(lines, st) ==
    IF lines = <<>> \/ st.raised THEN st
    ELSE IF Len(lines) = 1 THEN ExtractStep(lines[1], st)
    ELSE ExtractLoop(SubSeq(lines, Len(lines) \div 2 + 1, Len(lines)),
                     ExtractLoop(SubSeq(lines, 1, Len(lines) \div 2), st))

\* `if current_exp: work_experience.append(current_exp)' and the return
ExtractResult(st) ==
    [raised |-> st.raised,
     entries |-> IF st.raised THEN <<>>
                 ELSE IF st.cur # <<>> THEN Append(st.work, st.cur[1]) ELSE st.work]

IsNotBlank(l) == l # BlankLine

\* [raised |-> the call raised IndexError, entries |-> the list returned]
_extract_work_experience(text) ==
    ExtractResult(ExtractLoop(SelectSeq(text, IsNotBlank),
                              [raised |-> FALSE, work |-> <<>>, cur |-> <<>>]))

(***************************************************************************)
(* The eight category scorers.  Each returns                               *)
(*   [score |-> sub-score * SubDen, max |-> 100, feedback |-> <<...>>]     *)
(* text is the sequence of the lines of the resume.                        *)
(***************************************************************************)
KeywordsFound(text) == UNION {LineFacts[text[i]].keywords : i \in 1..Len(text)}

\* the keyword categories none of whose keywords were found, in table order
MissingCategories(found) ==
    SelectSeq(KeywordCategories, LAMBDA c : found \cap common_keywords[c] = {})

KeywordScore(found) ==
    [score |-> (Cardinality(found) * 100 * SubDen) \div Cardinality(AllKeywords),
     max |-> 100,
     feedback |-> IF MissingCategories(found) # <<>>
                  THEN <<"Consider adding keywords related to:">> \o MissingCategories(found)
                  ELSE <<"Good keyword coverage across multiple categories.">>]

_score_keywords(text) == KeywordScore(KeywordsFound(text))

VerbScore(verb_count) ==
    [score |-> Min((verb_count * 100 * SubDen) \div 15, 100 * SubDen),
     max |-> 100,
     feedback |-> IF verb_count < 5
                  THEN <<"Use more action verbs to start your bullet points.">>
                  ELSE <<"Good use of action-oriented language.">>]

_score_action_verbs(text) ==
    VerbScore(Cardinality(UNION {LineFacts[text[i]].verbs : i \in 1..Len(text)}))

MissingContact(found) == SelectSeq(contact_info_patterns, LAMBDA c : c \notin found)

ContactScore(found) ==
    [score |-> (Cardinality(found) * 100 * SubDen) \div Len(contact_info_patterns),
     max |-> 100,
     feedback |-> IF MissingContact(found) # <<>>
                  THEN <<"Missing:">> \o MissingContact(found)
                       \o <<"Ensure your contact info is complete and professional.">>
                  ELSE <<"All essential contact information is present.">>]

_score_contact_info(text) ==
    ContactScore(UNION {LineFacts[text[i]].contact : i \in 1..Len(text)})

seniority_keywords == <<"junior", "associate", "", "senior", "lead", "principal",
                        "manager", "director", "vp", "cto", "ceo">>

\* the seniority keywords that occur in title.lower()
SeniorityIn(title) ==
    CASE title \in {"Senior Software Engineer", "Senior Developer"} -> {"senior"}
      [] title = "Junior Developer" -> {"junior"}
      [] title = "Associate Developer" -> {"associate"}
      [] title = "Lead Developer" -> {"lead"}
      [] title = "Principal Developer" -> {"principal"}
      [] OTHER -> {}

\* index (from 0) of the first non-empty seniority keyword found in the
\* title, 0 when none is found
RECURSIVE LevelFrom(_, _)
LevelFrom(title, i) ==
    IF i > Len(seniority_keywords) THEN 0
    ELSE IF seniority_keywords[i] # "" /\ seniority_keywords[i] \in SeniorityIn(title)
         THEN i - 1
         ELSE LevelFrom(title, i + 1)

CurrentLevel(title) == LevelFrom(title, 1)

\* the loop of "2. Career Progression": 5 points whenever the level of a
\* titled entry exceeds previous_level, which starts at -1
RECURSIVE ProgressionLoop(_, _, _)
ProgressionLoop(entries, previous_level, progression_score) ==
    IF entries = <<>> THEN progression_score
    ELSE IF Head(entries).title = None
         THEN ProgressionLoop(Tail(entries), previous_level, progression_score)
         ELSE ProgressionLoop(Tail(entries), CurrentLevel(Head(entries).title),
                  IF CurrentLevel(Head(entries).title) > previous_level
                  THEN progression_score + 5 ELSE progression_score)

AllBullets(entries) ==
    Flatten([i \in 1..Len(entries) |-> entries[i].bullet_points])

\* the loop of "3. Achievements" over all bullets, in order
RECURSIVE AchievementLoop(_, _, _)
AchievementLoop(bullets, used, achievement_score) ==
    IF bullets = <<>> THEN achievement_score
    ELSE AchievementLoop(
             Tail(bullets),
             IF Head(bullets).action_verb # None
             THEN used \cup {Head(bullets).action_verb} ELSE used,
             achievement_score
               + (IF Head(bullets).has_metrics THEN 3 ELSE 0)
               + (IF Head(bullets).action_verb # None
                     /\ Head(bullets).action_verb \notin used THEN 1 ELSE 0))

\* the bonus for three or more bullets without the cap
AchievementPartUncapped(total_bullet_points, achievement_score) ==
    IF total_bullet_points >= 3 THEN achievement_score + 5 ELSE achievement_score

\* the bonus for three or more bullets and the cap at 30
AchievementPart(total_bullet_points, achievement_score) ==
    Min(30, IF total_bullet_points >= 3
            THEN Min(30, achievement_score + 5) ELSE achievement_score)

IsComplete(exp) == exp.title # None /\ exp.company # None /\ exp.dates # None

BreakdownOf(we, bullets) ==
    [position_details |->
        Min(20, 10 * Cardinality({i \in 1..Len(we) : IsComplete(we[i])})),
     career_progression |->
        IF Len(we) > 1 THEN Min(20, ProgressionLoop(we, -1, 0)) ELSE 0,
     achievements |-> AchievementPart(Len(bullets), AchievementLoop(bullets, {}, 0)),
     technical_depth |->
        Min(20, 2 * SumSeq([i \in 1..Len(bullets) |-> bullets[i].tech])),
     formatting |->
        Min(10, (IF \A i \in 1..Len(we) : IsComplete(we[i]) THEN 5 ELSE 0)
                + (IF \A i \in 1..Len(we) : we[i].bullet_points # <<>> THEN 5 ELSE 0))]

\* score_breakdown of _score_work_experience for a non-empty entry list
ScoreBreakdown(we) == BreakdownOf(we, AllBullets(we))

ZeroBreakdown ==
    [position_details |-> 0, career_progression |-> 0, achievements |-> 0,
     technical_depth |-> 0, formatting |-> 0]

WorkMessages(we, b) ==
    (IF b.position_details < 10
     THEN <<"Ensure each position includes job title, company name, and dates.">>
     ELSE <<>>)
    \o (IF b.career_progression < 10 /\ Len(we) > 1
        THEN <<"Show career progression with increasing levels of responsibility.">>
        ELSE <<>>)
    \o (IF b.achievements < 15
        THEN <<"Include more quantified achievements with metrics.">>
        ELSE <<>>)
    \o (IF b.technical_depth < 10
        THEN <<"Highlight more technical skills and technologies used in each role.">>
        ELSE <<>>)
    \o (IF b.formatting < 5
        THEN <<"Improve formatting consistency across all work experience entries.">>
        ELSE <<>>)

OrDefault(fb, default) == IF fb # <<>> THEN fb ELSE <<default>>

WorkScoreOf(we, b) ==
    [score |-> SubDen * (b.position_details + b.career_progression
                         + b.achievements + b.technical_depth + b.formatting),
     max |-> 100, breakdown |-> b, feedback |-> OrDefault(WorkMessages(we, b),
                            "Work experience section is well-structured with detailed achievements.")]

\* _score_work_experience given the extracted entries
ScoreWorkEntries(we) ==
    IF we = <<>>
    THEN [score |-> 0, max |-> 100, breakdown |-> ZeroBreakdown,
          feedback |-> <<"No work experience section found. Include your work history with job titles and dates.">>]
    ELSE WorkScoreOf(we, ScoreBreakdown(we))

WorkResult(x) == [raised |-> x.raised, result |-> ScoreWorkEntries(x.entries)]

\* raises what _extract_work_experience raises
_score_work_experience(text) == WorkResult(_extract_work_experience(text))

EducationPoints(degrees, institutions, years) ==
    IF degrees = 0 /\ institutions = 0 THEN 0
    ELSE (IF degrees > 0 THEN 40 + (IF degrees > 1 THEN 20 ELSE 0) ELSE 0)
         + (IF institutions > 0 THEN 20 + (IF institutions > 1 THEN 10 ELSE 0) ELSE 0)
         + (IF years THEN 10 ELSE 0)

EducationMessages(degrees, institutions, years) ==
    IF degrees = 0 /\ institutions = 0
    THEN <<"Education section not found or not clearly formatted.">>
    ELSE (IF degrees > 0 THEN <<>> ELSE <<"List your degree(s).">>)
         \o (IF institutions > 0 THEN <<>>
             ELSE <<"Include the name of your educational institution(s).">>)
         \o (IF years THEN <<>>
             ELSE <<"Add graduation year(s) or expected graduation date.">>)

EducationScore(degrees, institutions, years) ==
    [score |-> SubDen * Min(EducationPoints(degrees, institutions, years), 100),
     max |-> 100,
     feedback |-> OrDefault(EducationMessages(degrees, institutions, years),
                            "Education section is complete with degree, institution, and dates.")]

_score_education(text) ==
    EducationScore(SumSeq([i \in 1..Len(text) |-> LineFacts[text[i]].degrees]),
                   SumSeq([i \in 1..Len(text) |-> LineFacts[text[i]].institutions]),
                   \E i \in 1..Len(text) : LineFacts[text[i]].has_year)

\* index of the first line with a skills-section header, 0 without one
SkillsHeaderAt(text) ==
    IF \E i \in 1..Len(text) : LineFacts[text[i]].skills_header
    THEN CHOOSE i \in 1..Len(text) :
            /\ LineFacts[text[i]].skills_header
            /\ \A j \in 1..(i - 1) : ~LineFacts[text[j]].skills_header
    ELSE 0

\* (.+?)(?=\n\w|$) with DOTALL: the section runs from the header to the
\* first later line that starts with a word character, or to the end
SectionEnd(text, h) ==
    IF \E k \in (h + 1)..Len(text) : LineFacts[text[k]].starts_with_word
    THEN CHOOSE k \in (h + 1)..Len(text) :
            /\ LineFacts[text[k]].starts_with_word
            /\ \A j \in (h + 1)..(k - 1) : ~LineFacts[text[j]].starts_with_word
    ELSE Len(text) + 1

SkillCount(text, h) ==
    LineFacts[text[h]].header_entries
    + SumSeq([j \in 1..(SectionEnd(text, h) - h - 1) |-> LineFacts[text[h + j]].line_entries])

\* the score without the flat 80 above twenty entries
SectionScoreNoDrop(skill_count) ==
    IF skill_count = 0 THEN 0
    ELSE IF skill_count < 5 THEN 30 + skill_count * 5
    ELSE 40 + Min(skill_count * 4, 60)

\* score of a dedicated skills section with skill_count entries
SectionScore(skill_count) ==
    IF skill_count = 0 THEN 0
    ELSE IF skill_count < 5 THEN 30 + skill_count * 5
    ELSE IF skill_count > 20 THEN 80
    ELSE 40 + Min(skill_count * 4, 60)

SectionMessage(n) ==
    IF n = 0 THEN "No skills listed in the skills section."
    ELSE IF n < 5 THEN "Only a few skills listed. Aim for 10-15 relevant skills."
    ELSE IF n > 20 THEN "Consider focusing on the most relevant 10-15 skills."
    ELSE "Good number of skills listed."

SectionResult(n, categories) ==
    [score |-> SubDen * SectionScore(n), max |-> 100,
     feedback |-> <<SectionMessage(n)>>
                  \o (IF ~categories /\ n > 5
                      THEN <<"Consider grouping skills by category.">> ELSE <<>>)]

\* the fallback without a dedicated section
NoSectionResult(all_skills) ==
    IF all_skills # {}
    THEN [score |-> SubDen * 50, max |-> 100,
          feedback |-> <<"Skills are mentioned but not in a dedicated section.">>]
    ELSE [score |-> SubDen * 20, max |-> 100,
          feedback |-> <<"No skills section found.">>]

SkillsAt(text, h) ==
    IF h # 0
    THEN SectionResult(SkillCount(text, h),
                       \E j \in h..(SectionEnd(text, h) - 1) : LineFacts[text[j]].section_colon)
    ELSE NoSectionResult(KeywordsFound(text))

_score_skills(text) == SkillsAt(text, SkillsHeaderAt(text))

AchievementScore(achievement_count) ==
    IF achievement_count = 0
    THEN [score |-> SubDen * 20, max |-> 100,
          feedback |-> <<"No clear achievements or impact statements found.">>]
    ELSE IF achievement_count = 1
    THEN [score |-> SubDen * 50, max |-> 100,
          feedback |-> <<"Found 1 achievement. Add more quantifiable results to strengthen your resume.">>]
    ELSE IF achievement_count = 2
    THEN [score |-> SubDen * 70, max |-> 100,
          feedback |-> <<"Good start with achievements. Include 1-2 more for greater impact.">>]
    ELSE [score |-> SubDen * Min(90 + achievement_count * 2, 100), max |-> 100,
          feedback |-> <<"Great job highlighting your impact!">>]

_score_achievements(text) ==
    AchievementScore(Cardinality(UNION {LineFacts[text[i]].achievements : i \in 1..Len(text)}))

\* text.count('\n\n'): newline i separates line i from line i+1; newlines i
\* and i+1 are adjacent when line i+1 is empty; matches do not overlap
\* (a run of k empty lines that are neither the first nor the last line
\* joins k + 1 newlines): the empty lines at an odd place of their run each
\* complete one match
DoubleNewlines(text) ==
    Cardinality({j \in 2..(Len(text) - 1) :
        /\ text[j] = BlankLine
        /\ Cardinality({s \in 2..j : \A k \in s..j : text[k] = BlankLine}) % 2 = 1})

\* len(re.findall(r'^[A-Z\s]+$', text, MULTILINE)): one match per maximal
\* run of blank or all-caps lines that is not a single blank line
\* (the runs are counted at their first line)
InCapsRun(text, i) == text[i] = BlankLine \/ LineFacts[text[i]].all_caps

AllCapsMatches(text) ==
    Cardinality({i \in 1..Len(text) :
        /\ InCapsRun(text, i)
        /\ i = 1 \/ ~InCapsRun(text, i - 1)
        /\ ~(text[i] = BlankLine /\ (i = Len(text) \/ ~InCapsRun(text, i + 1)))})

\* the facts _score_formatting gathers from the text
FormattingFacts(text) ==
    [found |-> UNION {LineFacts[text[i]].headers : i \in 1..Len(text)},
     line_count |-> Cardinality({i \in 1..Len(text) : text[i] # BlankLine}),
     bullet_styles |-> UNION {LineFacts[text[i]].bullet_styles : i \in 1..Len(text)},
     newlines |-> Max(Len(text) - 1, 0),
     double_newlines |-> DoubleNewlines(text),
     all_caps |-> AllCapsMatches(text)]

\* the flags with the length test reversed: 20 lines or more count as short
FormattingFlagsLongIsShort(f) ==
    [found |-> f.found,
     too_short |-> f.line_count >= 20,
     too_long |-> FALSE,
     mixed_bullets |-> Cardinality(f.bullet_styles) > 1,
     bad_spacing |-> f.newlines - 2 * f.double_newlines > f.double_newlines * 2,
     too_many_caps |-> f.all_caps > 3]

\* the conditions _score_formatting tests; bad_spacing is
\* single_newlines > double_newlines * 2
FormattingFlags(f) ==
    [found |-> f.found,
     too_short |-> f.line_count < 20,
     too_long |-> ~(f.line_count < 20) /\ f.line_count > 60,
     mixed_bullets |-> Cardinality(f.bullet_styles) > 1,
     bad_spacing |-> f.newlines - 2 * f.double_newlines > f.double_newlines * 2,
     too_many_caps |-> f.all_caps > 3]

FormattingPoints(f) ==
    50 + (IF f.found # {} THEN 10 ELSE 0)
       - (IF f.too_short THEN 10 ELSE IF f.too_long THEN 5 ELSE 0)
       - (IF f.mixed_bullets THEN 5 ELSE 0)
       - (IF f.bad_spacing THEN 5 ELSE 0)
       - (IF f.too_many_caps THEN 5 ELSE 0)

MissingSections(f) ==
    SelectSeq(<<"experience", "education", "skills">>, LAMBDA h : h \notin f.found)

FormattingMessages(f) ==
    (IF f.found = {} THEN <<"No clear section headers found.">>
     ELSE IF MissingSections(f) # <<>>
     THEN <<"Consider adding sections for:">> \o MissingSections(f)
     ELSE <<>>)
    \o (IF f.too_short THEN <<"Resume seems too short.">>
        ELSE IF f.too_long THEN <<"Resume might be too long.">> ELSE <<>>)
    \o (IF f.mixed_bullets THEN <<"Inconsistent bullet point styles.">> ELSE <<>>)
    \o (IF f.bad_spacing THEN <<"Inconsistent spacing.">> ELSE <<>>)
    \o (IF f.too_many_caps THEN <<"Avoid using ALL CAPS for section headers.">> ELSE <<>>)

FormattingScore(f) ==
    [score |-> SubDen * Max(0, Min(100, FormattingPoints(f))), max |-> 100,
     feedback |-> OrDefault(FormattingMessages(f),
                            "Good structure and formatting detected.")]

_score_formatting(text) == FormattingScore(FormattingFlags(FormattingFacts(text)))

(***************************************************************************)
(* ATSScorer.calculate_score and calculate_ats_score                       *)
(***************************************************************************)
\* a ScoreResult; score is in hundredths; value tells what the caller gets
ScoreResult(score, max_score, details, feedback) ==
    [status |-> "returned", exc |-> None, value |-> "ScoreResult",
     score |-> score, max_score |-> max_score, details |-> details,
     feedback |-> feedback]

\* the call ends with an exception leaving the function
Raised(exc) ==
    [status |-> "raised", exc |-> exc, value |-> None, score |-> 0,
     max_score |-> 0, details |-> <<>>, feedback |-> <<>>]

NoOutput ==
    [status |-> "none", exc |-> None, value |-> None, score |-> 0,
     max_score |-> 0, details |-> <<>>, feedback |-> <<>>]

\* the (score, max_possible, details) tuples of the eight scorers, given the
\* result of the work-experience scorer
CategoryResults(text, we) ==
    [keywords |-> _score_keywords(text),
     action_verbs |-> _score_action_verbs(text),
     contact_info |-> _score_contact_info(text),
     work_experience |-> we,
     education |-> _score_education(text),
     skills |-> _score_skills(text),
     achievements |-> _score_achievements(text),
     formatting |-> _score_formatting(text)]

\* sum of (score / max_possible) * category_weight, times 100 * SubDen
TotalScore(results) ==
    SumSeq([i \in 1..Len(Categories) |->
              (results[Categories[i]].score * 100 * keyword_weights[Categories[i]])
                 \div results[Categories[i]].max])

\* round(total_score, 2) in hundredths: total is a multiple of 1/(100 * SubDen)
\* and SubDen is odd, so no tie occurs
Round2(total) == (2 * total + SubDen) \div (2 * SubDen)

\* min(round(total_score, 2), 100)
FinalScore(results) == Min(Round2(TotalScore(results)), 100 * 100)

\* the threshold taken at half of the maximum
NeedsImprovementHalf(r) == r.score * 10 < r.max * 5 * SubDen

\* score < max_possible * 0.6
NeedsImprovement(r) == r.score * 10 < r.max * 6 * SubDen

CategoryFeedback(results) ==
    Flatten([i \in 1..Len(Categories) |->
               IF NeedsImprovement(results[Categories[i]])
               THEN << <<CategoryTitle[Categories[i]]>> \o results[Categories[i]].feedback >>
               ELSE <<>>])

OverallFeedback(final_score) ==
    IF final_score < 50 * 100
    THEN <<"Your resume needs significant improvement to pass ATS screening.">>
    ELSE IF final_score < 75 * 100
    THEN <<"Your resume is decent but could be improved for better ATS performance.">>
    ELSE <<"Great job! Your resume is well-optimized for ATS systems.">>

\* the ScoreResult assembled from the eight results and the final score
Assemble(results, final_score) ==
    ScoreResult(final_score, 100,
                [c \in Range(Categories) |->
                   [score |-> results[c].score, max_score |-> results[c].max]],
                <<OverallFeedback(final_score)>> \o CategoryFeedback(results))

ResultFrom(results) == Assemble(results, FinalScore(results))

\* the exception of the work-experience scorer leaves calculate_score
ScoreWith(text, we) ==
    IF we.raised THEN Raised("IndexError")
    ELSE ResultFrom(CategoryResults(text, we.result))

calculate_score(t) ==
    IF IsEmptyText(t) \/ IsBlankText(t)
    THEN ScoreResult(0, 100, <<>>, << <<"Empty resume text provided">> >>)
    ELSE ScoreWith(FullLines(t), _score_work_experience(FullLines(t)))

\* the values calculate_ats_score may be handed
InputKinds == {"None", "falsy", "truthy", "str"}

\* `not text or not isinstance(text, str) or not text.strip()'
IsInvalidInput(v) ==
    \/ v.kind \in {"None", "falsy"}
    \/ v.kind # "str"
    \/ IsEmptyText(v.text) \/ IsBlankText(v.text)

Float(score) ==
    [status |-> "returned", exc |-> None, value |-> "float", score |-> score,
     max_score |-> 100, details |-> <<>>, feedback |-> <<>>]

\* result.score = max(0, min(100, result.score)) and the return
Clamped(result, return_full_result) ==
    IF return_full_result
    THEN [result EXCEPT !.score = Max(0, Min(100 * 100, @))]
    ELSE Float(Max(0, Min(100 * 100, result.score)))

\* the body without its try/except: what calculate_score raises leaves it
ReturnOrPropagate(result, return_full_result) ==
    IF result.status = "raised" THEN result
    ELSE Clamped(result, return_full_result)

\* the try body after the call of calculate_score, and the except clause
ReturnOrCatch(result, return_full_result) ==
    IF result.status = "raised"
    THEN IF return_full_result
         THEN ScoreResult(0, 100, <<>>,
                          << <<"Error calculating ATS score:", result.exc>> >>)
         ELSE Float(0)
    ELSE Clamped(result, return_full_result)

calculate_ats_score(v, return_full_result) ==
    IF IsInvalidInput(v)
    THEN IF return_full_result
         THEN ScoreResult(0, 100, <<>>, << <<"Empty or invalid resume text provided">> >>)
         ELSE Float(0)
    ELSE ReturnOrCatch(calculate_score(v.text), return_full_result)

(***************************************************************************)
(* Specification of the ATS scorer                                         *)
(***************************************************************************)
\* a call is about to be made with input inp: a text of up to MaxLines
\* lines followed by 0, 20 or 60 plain lines, or a value that is no string
InitATS ==
    /\ op = "init"
    /\ inp \in [kind : {"str"},
               text : [lines : SeqsUpTo(AtsLines, MaxLines), pad : {0, 20, 60}],
               full : BOOLEAN]
             \cup [kind : InputKinds \ {"str"}, text : {[lines |-> <<>>, pad |-> 0]},
                   full : BOOLEAN]
    /\ out = NoOutput

\* ATSScorer().calculate_score(text) on a string
CalculateScore ==
    /\ op = "init"
    /\ inp.kind = "str"
    /\ op' = "calculate_score"
    /\ out' = calculate_score(inp.text)
    /\ UNCHANGED inp

\* calculate_ats_score(text, return_full_result) on any value
CalculateAtsScore ==
    /\ op = "init"
    /\ op' = "calculate_ats_score"
    /\ out' = calculate_ats_score(inp, inp.full)
    /\ UNCHANGED inp

NextATS == CalculateScore \/ CalculateAtsScore

SpecATS == InitATS /\ [][NextATS]_vars

(***************************************************************************)
(* Properties of the ATS scorer (checked under SpecATS)                    *)
(***************************************************************************)
CalledScore == op = "calculate_score"

CalledWrapper == op = "calculate_ats_score"

\* the text handed to the call is empty or whitespace only
BlankInput == \A i \in 1..Len(FullLines(inp.text)) : FullLines(inp.text)[i] = ""

\* the text holds a date-range line whose end is neither missing nor 'Present'
HasFailingDate ==
    \E i \in 1..Len(inp.text.lines) : LineFacts[inp.text.lines[i]].date_kind \in {"present", "explicit"}

\* C1: for every resume text, calculate_score returns a ScoreResult whose
\* score lies in [0, 100]
C1_ScoreInRange ==
    CalledScore => /\ out.status = "returned"
                   /\ out.value = "ScoreResult"
                   /\ 0 <= out.score /\ out.score <= 100 * 100

\* C2: calculate_score never lets an exception reach its caller; when the
\* work-experience extraction fails on a date-range line it still returns a
\* ScoreResult with score 0 and an explanatory feedback entry
C2_NeverPropagates ==
    CalledScore => /\ out.status # "raised"
                   /\ HasFailingDate => (out.score = 0 /\ out.feedback # <<>>)

\* C3: for an empty or whitespace-only text calculate_score returns score 0,
\* max_score 100, empty details and a feedback list that starts with the
\* 'empty resume text' notice; no category scorer contributes anything
C3_EmptyText ==
    (CalledScore /\ BlankInput) =>
        /\ out.status = "returned"
        /\ out.score = 0
        /\ out.max_score = 100
        /\ DOMAIN out.details = {}
        /\ out.feedback # <<>>
        /\ out.feedback[1] = <<"Empty resume text provided">>
        /\ Len(out.feedback) = 1

\* a whitespace-only text that is not the empty string was scored
C3_Witness ==
    /\ CalledScore /\ BlankInput
    /\ Len(inp.text.lines) >= 2
    /\ out.score = 0 /\ Len(out.feedback) = 1

\* the weights the specification lists
SpecWeights ==
    [keywords |-> 30, action_verbs |-> 20, work_experience |-> 20,
     skills |-> 15, achievements |-> 15, contact_info |-> 10,
     education |-> 10, formatting |-> 10]

\* sum over the reported sub-scores of (sub_score / 100) * weight, times
\* 100 * SubDen
WeightedSum(details) ==
    SumSeq([i \in 1..Len(Categories) |->
              details[Categories[i]].score * SpecWeights[Categories[i]]])

LowCategories(details) ==
    SelectSeq(Categories,
              LAMBDA c : details[c].score * 10 < details[c].max_score * 6 * SubDen)

VerdictFor(score) ==
    IF score < 50 * 100
    THEN "Your resume needs significant improvement to pass ATS screening."
    ELSE IF score < 75 * 100
    THEN "Your resume is decent but could be improved for better ATS performance."
    ELSE "Great job! Your resume is well-optimized for ATS systems."

C6_WrapperNeverRaises ==
    CalledWrapper =>
        /\ out.status = "returned"
        /\ out.value = (IF inp.full THEN "ScoreResult" ELSE "float")
        /\ 0 <= out.score /\ out.score <= 100 * 100
        /\ (inp.kind # "str" \/ BlankInput) =>
              /\ out.score = 0
              /\ inp.full => Len(out.feedback) = 1
        /\ (inp.kind = "str" /\ HasFailingDate /\ ~BlankInput) =>
              /\ out.score = 0
              /\ inp.full => (Len(out.feedback) = 1 /\ out.feedback[1][2] = "IndexError")

\* the wrapper was called with full result on a text that makes
\* calculate_score raise, and returned the zero-score error result
C6_Witness ==
    /\ CalledWrapper /\ inp.kind = "str" /\ inp.full
    /\ HasFailingDate
    /\ out.status = "returned" /\ out.score = 0
    /\ out.feedback = << <<"Error calculating ATS score:", "IndexError">> >>

(***************************************************************************)
(* clean_resume_text (resume_parser.py).  A text is a sequence of pieces;  *)
(* the string it stands for is the pieces joined by one space.  A piece is *)
(* a word of NormAlphabet, or what a substitution leaves of one: "" for a  *)
(* removed word and " " for a word replaced by a space.  The alphabet is   *)
(* printable ASCII without style or script elements, so only the           *)
(* substitutions that can change such a text are steps of the model.       *)
(***************************************************************************)
MaxTok == 3

NormAlphabet ==
    {"python", "personal", "details", "skills", "resume", "work", "history",
     "<b>", "&amp;", "jane@x.com", "http://x.io", "!", "name:"}

IsBlankPiece(p) == p \in {"", " "}

IsWordPiece(p) == ~IsBlankPiece(p)

\* pieces matched by <[^>]+>
IsTag(p) == p \in {"<b>"}

\* pieces matched by (?:name|address|...)\s*:
IsFieldLabel(p) ==
    p \in {"name:", "address:", "phone:", "email:", "linkedin:", "github:",
           "portfolio:"}

\* re.sub on a pattern that matches whole pieces: each piece in `matched'
\* is replaced
ReplacePieces(text, matched, by) ==
    [i \in 1..Len(text) |-> IF text[i] \in matched THEN by ELSE text[i]]

\* re.sub(r'<[^>]+>', ' ', text)
StripTags(text) == ReplacePieces(text, {p \in Range(text) : IsTag(p)}, " ")

\* re.sub(r'\s+', ' ', text): every run of whitespace becomes one space
CollapseWhitespace(text) ==
    IF text = <<>> \/ text = <<"">> THEN text
    ELSE IF \A i \in 1..Len(text) : IsBlankPiece(text[i]) THEN <<"", "">>
    ELSE (IF IsBlankPiece(text[1]) THEN <<"">> ELSE <<>>)
         \o SelectSeq(text, IsWordPiece)
         \o (IF IsBlankPiece(text[Len(text)]) THEN <<"">> ELSE <<>>)

\* the alternatives of the five section_headers patterns: pairs are two
\* words joined by \s+, singles are one word
HeaderPairs ==
    << {<<"personal", "detail">>, <<"personal", "details">>,
        <<"contact", "info">>, <<"contact", "information">>},
       {<<"work", "history">>, <<"employment", "history">>,
        <<"professional", "experience">>, <<"academic", "background">>},
       {<<"technical", "skills">>, <<"soft", "skills">>,
        <<"programming", "languages">>},
       {},
       {} >>

HeaderSingles ==
    << {"summary", "experience", "education", "skills", "projects",
        "certifications", "awards", "publications", "languages", "interests",
        "references"},
       {},
       {"frameworks", "tools"},
       {},
       {"confidential", "resume", "cv"} >>

\* index of the first word piece at or after i, 0 when there is none
RECURSIVE NextWord(_, _)
NextWord(text, i) ==
    IF i > Len(text) THEN 0
    ELSE IF IsWordPiece(text[i]) THEN i
    ELSE NextWord(text, i + 1)

\* the pair alternative matching at the head of text ends at this index;
\* 0 when no pair matches there
PairEnd(text, pairs, j) ==
    IF j # 0 /\ <<text[1], text[j]>> \in pairs THEN j ELSE 0

\* re.sub(pattern, '', text) for a pattern of word alternatives: matches are
\* found left to right and do not overlap
RECURSIVE RemoveHeaders(_, _, _)
RemoveHeaders(text, pairs, singles) ==
    IF text = <<>> THEN <<>>
    ELSE IF PairEnd(text, pairs, NextWord(text, 2)) # 0
    THEN <<"">> \o RemoveHeaders(
                       SubSeq(text, PairEnd(text, pairs, NextWord(text, 2)) + 1,
                              Len(text)),
                       pairs, singles)
    ELSE IF text[1] \in singles
    THEN <<"">> \o RemoveHeaders(Tail(text), pairs, singles)
    ELSE <<text[1]>> \o RemoveHeaders(Tail(text), pairs, singles)

\* index of the first field label, 0 when there is none
RECURSIVE FirstLabel(_, _)
FirstLabel(text, i) ==
    IF i > Len(text) THEN 0
    ELSE IF IsFieldLabel(text[i]) THEN i
    ELSE FirstLabel(text, i + 1)

\* the fourth pattern: the text holds no newline after the whitespace
\* step, so .*?(?=\n\s*\n|$) runs from the label to the end of the text
RemoveFields(text) ==
    IF FirstLabel(text, 1) = 0 THEN text
    ELSE Append(SubSeq(text, 1, FirstLabel(text, 1) - 1), "")

\* the substitutions of the try block, in order: tags, entities (&[a-z0-9]+;),
\* whitespace, the five section_headers patterns, e-mail addresses, URLs
\* and the characters outside \w, \s and keep_chars
NSteps == 11

Step(i, text) ==
    CASE i = 1 -> StripTags(text)
      [] i = 2 -> ReplacePieces(text, {"&amp;"}, " ")
      [] i = 3 -> CollapseWhitespace(text)
      [] i \in {4, 5, 6, 8} -> RemoveHeaders(text, HeaderPairs[i - 3], HeaderSingles[i - 3])
      [] i = 7 -> RemoveFields(text)
      [] i = 9 -> ReplacePieces(text, {"jane@x.com"}, "")
      [] i = 10 -> ReplacePieces(text, {"http://x.io"}, "")
      [] i = 11 -> ReplacePieces(text, {"!"}, " ")

\* the text after steps first..last
RECURSIVE RunSteps(_, _, _)
RunSteps(text, first, last) ==
    IF first > last THEN text
    ELSE RunSteps(Step(first, text), first + 1, last)

\* ' '.join(text.split()), then text.strip()
JoinWords(text) == SelectSeq(text, IsWordPiece)

\* text.strip(); an empty string is <<>>
RECURSIVE Strip(_)
Strip(text) ==
    IF text = <<>> THEN <<>>
    ELSE IF IsBlankPiece(text[1]) THEN Strip(Tail(text))
    ELSE IF IsBlankPiece(text[Len(text)]) THEN Strip(SubSeq(text, 1, Len(text) - 1))
    ELSE text

\* the except clause without its tag removal
FallbackKeepTags(text) == Strip(text)

\* the except clause, on the text as the failing step found it
Fallback(text) == Strip(StripTags(text))

Returned(text) == [status |-> "returned", exc |-> None, text |-> text, twice |-> <<>>]

NormRaised(exc) == [status |-> "raised", exc |-> exc, text |-> <<>>, twice |-> <<>>]

\* failAt = 0: no step fails; failAt = k: step k raises
clean_resume_text(v, failAt) ==
    IF v.kind \in {"None", "falsy"} \/ (v.kind = "str" /\ v.toks = <<>>)
    THEN Returned(<<>>)
    ELSE IF v.kind # "str" THEN NormRaised("ValueError")
    ELSE IF failAt = 0 THEN Returned(JoinWords(RunSteps(v.toks, 1, NSteps)))
    ELSE Returned(Fallback(RunSteps(v.toks, 1, failAt - 1)))

(***************************************************************************)
(* Specification of the text normaliser: the input is drawn in the initial *)
(* state, one action cleans it and a second cleans the result again.       *)
(***************************************************************************)
NormNoOutput == [status |-> "none", exc |-> None, text |-> <<>>, twice |-> <<>>]

InitNorm ==
    /\ op = "init"
    /\ inp \in [kind : {"str"}, toks : SeqsUpTo(NormAlphabet, MaxTok), failAt : 0..NSteps]
             \cup [kind : InputKinds \ {"str"}, toks : {<<>>}, failAt : {0}]
    /\ out = NormNoOutput

CleanResumeText ==
    /\ op = "init"
    /\ op' = "clean_resume_text"
    /\ out' = clean_resume_text(inp, inp.failAt)
    /\ UNCHANGED inp

\* the result of a call is cleaned again
CleanAgain ==
    /\ op = "clean_resume_text"
    /\ out.status = "returned"
    /\ op' = "clean_twice"
    /\ out' = [out EXCEPT !.twice =
                  clean_resume_text([kind |-> "str", toks |-> out.text, failAt |-> 0], 0).text]
    /\ UNCHANGED inp

NextNorm == CleanResumeText \/ CleanAgain

SpecNorm == InitNorm /\ [][NextNorm]_vars

(***************************************************************************)
(* The job-description matcher (jd_matcher.py).  A text is a sequence of   *)
(* whitespace-separated tokens of JdAlphabet; <<>> is the empty string.    *)
(***************************************************************************)
MaxWords == 2

JdAlphabet ==
    {"Tester", "tests", "testers", "tested", "The", "C++", "2024", "http://x.io"}

\* what the functions make of a token: clean is what the substitutions of
\* _preprocess_text and lower() leave of it (a token matched by http\S+ is
\* removed), words is re.findall(r'\b\w+\b', token) lower-cased, lower is
\* token.lower()
TokenFacts(tok) ==
    CASE tok = "Tester" -> [clean |-> <<"tester">>, words |-> <<"tester">>, lower |-> "tester"]
      [] tok = "The" -> [clean |-> <<"the">>, words |-> <<"the">>, lower |-> "the"]
      [] tok = "C++" -> [clean |-> <<"c">>, words |-> <<"c">>, lower |-> "c++"]
      [] tok = "http://x.io" ->
           [clean |-> <<>>, words |-> <<"http", "x", "io">>, lower |-> tok]
      [] OTHER -> [clean |-> <<tok>>, words |-> <<tok>>, lower |-> tok]

_preprocess_text(text) ==
    Flatten([i \in 1..Len(text) |-> TokenFacts(text[i]).clean])

\* the default stopwords that the words of the alphabet can meet
stopwords == {"the", "a", "an", "and", "are", "as", "at", "i", "s", "t", "d", "m", "o", "y"}

min_word_length == 3

\* the filter of the comprehensions; word.isdigit() holds for "2024"
IsKeyword(word) ==
    word \notin stopwords /\ Len(word) >= min_word_length /\ word \notin {"2024"}

\* the set comprehension building resume_words and jd_words
KeywordsOf(text) ==
    {w \in Range(Flatten([i \in 1..Len(text) |-> TokenFacts(text[i]).words])) : IsKeyword(w)}

\* the keywords in the order of sorted()
SortedWords == <<"http", "tested", "tester", "testers", "tests">>

Sorted(S) == SelectSeq(SortedWords, LAMBDA w : w \in S)

\* sum of the sizes of SequenceMatcher's matching blocks
MatchingChars(x, w) ==
    CASE x = w -> Len(x)
      [] {x, w} = {"tested", "tester"} -> 5
      [] {x, w} = {"tested", "testers"} -> 5
      [] {x, w} = {"tested", "tests"} -> 4
      [] {x, w} = {"tester", "testers"} -> 6
      [] {x, w} = {"tester", "tests"} -> 4
      [] {x, w} = {"testers", "tests"} -> 5
      [] OTHER -> 2

\* SequenceMatcher.ratio() = 2.0 * M / T compared to cutoff = 0.8
ReachesCutoff(x, w) == 5 * 2 * MatchingChars(x, w) >= 4 * (Len(x) + Len(w))

\* (ratio, x) of possibility x is at least that of y, as heapq.nlargest
\* compares the tuples
AtLeast(x, y, w) ==
    \/ 2 * MatchingChars(x, w) * (Len(y) + Len(w))
         > 2 * MatchingChars(y, w) * (Len(x) + Len(w))
    \/ /\ 2 * MatchingChars(x, w) * (Len(y) + Len(w))
            = 2 * MatchingChars(y, w) * (Len(x) + Len(w))
       /\ \E i, j \in 1..Len(SortedWords) :
              SortedWords[i] = x /\ SortedWords[j] = y /\ i >= j

\* the possibilities that reach the cutoff
CloseTo(word, possibilities) == {x \in possibilities : ReachesCutoff(x, word)}

\* difflib.get_close_matches(word, possibilities, n=1, cutoff=0.8)
get_close_matches(word, possibilities) ==
    IF CloseTo(word, possibilities) = {} THEN <<>>
    ELSE <<CHOOSE x \in CloseTo(word, possibilities) :
               \A y \in CloseTo(word, possibilities) : AtLeast(x, y, word)>>

\* the orders in which a set may be iterated
Orders(S) ==
    {o \in [1..Cardinality(S) -> S] : \A i, j \in DOMAIN o : o[i] = o[j] => i = j}

\* `for jd_word in remaining_jd', visiting the words in the given order
RECURSIVE PartialLoop(_, _, _)
RECURSIVE PartialStep(_, _, _, _)
PartialLoop(order, remaining_resume, partial_matches) ==
    IF order = <<>> THEN partial_matches
    ELSE PartialStep(order, remaining_resume, partial_matches,
                     get_close_matches(Head(order), remaining_resume))

PartialStep(order, remaining_resume, partial_matches, matches) ==
    IF matches # <<>>
    THEN PartialLoop(Tail(order), remaining_resume \ {matches[1]},
                     partial_matches \cup {Head(order)})
    ELSE PartialLoop(Tail(order), remaining_resume, partial_matches)

\* the tuple with the missing keywords left out
OverlapResultNoMissing(matched, jd_words) ==
    [num |-> IF jd_words = {} THEN 0 ELSE Cardinality(matched),
     den |-> IF jd_words = {} THEN 1 ELSE Cardinality(jd_words),
     matched |-> Sorted(matched),
     missing |-> <<>>]

\* the tuple returned: match_score is num / den
OverlapResult(matched, jd_words) ==
    [num |-> IF jd_words = {} THEN 0 ELSE Cardinality(matched),
     den |-> IF jd_words = {} THEN 1 ELSE Cardinality(jd_words),
     matched |-> Sorted(matched),
     missing |-> Sorted(jd_words \ matched)]

OverlapOf(resume_words, jd_words, order) ==
    OverlapResult((resume_words \cap jd_words)
                      \cup PartialLoop(order, resume_words \ jd_words, {}),
                  jd_words)

\* remaining_jd = jd_words - exact_matches
RemainingJd(resume_text, jd_text) == KeywordsOf(jd_text) \ KeywordsOf(resume_text)

\* order is the order in which the set remaining_jd is iterated
_calculate_keyword_overlap(resume_text, jd_text, order) ==
    IF resume_text = <<>> \/ jd_text = <<>>
    THEN [num |-> 0, den |-> 1, matched |-> <<>>, missing |-> <<>>]
    ELSE OverlapOf(KeywordsOf(resume_text), KeywordsOf(jd_text), order)

LowerSet(text) == {TokenFacts(text[i]).lower : i \in 1..Len(text)}

threshold == 6

\* the one pair of sentences: a text of the alphabet is one sentence
SentenceMatch(resume_text, jd_text, common_words, jd_words) ==
    IF common_words # {}
       /\ 10 * Cardinality(common_words) >= threshold * Cardinality(jd_words)
    THEN << [jd_sentence |-> jd_text, resume_sentence |-> resume_text,
             is_fallback |-> TRUE] >>
    ELSE <<>>

_calculate_semantic_similarity(resume_text, jd_text, available) ==
    IF ~available THEN <<>>
    ELSE IF ~(Len(jd_text) > 3) \/ ~(Len(resume_text) > 3) THEN <<>>
    ELSE SentenceMatch(resume_text, jd_text,
                       LowerSet(jd_text) \cap LowerSet(resume_text),
                       LowerSet(jd_text))

MatchResult(match_score, keyword_overlap, missing_keywords, semantic_matches, feedback) ==
    [status |-> "returned", match_score |-> match_score,
     keyword_overlap |-> keyword_overlap, missing_keywords |-> missing_keywords,
     semantic_matches |-> semantic_matches, feedback |-> feedback]

\* the verdict by keyword_score >= 0.7, >= 0.4, else
KeywordVerdict(k) ==
    IF 10 * k.num >= 7 * k.den
    THEN <<"Strong keyword match with the job description!">>
    ELSE IF 10 * k.num >= 4 * k.den
    THEN <<"Moderate keyword match with the job description.">>
    ELSE <<"Low keyword match with the job description.">>

\* the line naming up to five missing keywords
MissingLine(missing_keywords) ==
    IF missing_keywords = <<>> THEN <<>>
    ELSE << <<"Consider adding these keywords:">>
            \o SubSeq(missing_keywords, 1, Min(5, Len(missing_keywords)))
            \o (IF Len(missing_keywords) > 5 THEN <<"...">> ELSE <<>>) >>

FeedbackFor(k, semantic_matches) ==
    <<KeywordVerdict(k)>>
    \o MissingLine(k.missing)
    \o (IF semantic_matches # <<>>
        THEN << <<"Using basic matching. For better results, install: pip install sentence-transformers torch">> >>
        ELSE <<>>)
    \o (IF Len(k.missing) > 5
        THEN << <<"Total missing keywords:", Len(k.missing)>> >> ELSE <<>>)
    \o << <<"Tip: Tailor your resume to include more keywords from the job description.">> >>

\* min(100, int(overall_score * 100)) with overall_score = keyword_score * 100
ScoreOf(k) == Min(100, (k.num * 100 * 100) \div k.den)

\* the names bound when the feedback statements run: the parameters and the
\* locals assigned before them, and the names of the module
BoundNames ==
    {"resume_text", "jd_text", "use_semantic_matching", "semantic_threshold",
     "resume_clean", "jd_clean", "keyword_score", "keyword_overlap",
     "missing_keywords", "semantic_matches", "overall_score",
     "model", "logger", "SEMANTIC_MATCHING_AVAILABLE", "MatchResult"}

\* the try block from the feedback statements on: the first of them reads
\* the name feedback
BuildResult(k, semantic_matches) ==
    IF "feedback" \notin BoundNames
    THEN MatchResult(0, <<>>, <<>>, <<>>, << <<"An error occurred while processing your resume. Please try again.">> >>)
    ELSE MatchResult(ScoreOf(k), SubSeq(k.matched, 1, Min(20, Len(k.matched))),
                     k.missing, semantic_matches, FeedbackFor(k, semantic_matches))

MatchCleaned(resume_text, jd_text, resume_clean, jd_clean, available, order) ==
    BuildResult(_calculate_keyword_overlap(resume_clean, jd_clean, order),
                _calculate_semantic_similarity(resume_text, jd_text, available))

match_resume_to_jd(resume_text, jd_text, available, order) ==
    IF resume_text = <<>> \/ jd_text = <<>>
    THEN MatchResult(0, <<>>, <<>>, <<>>, << <<"Missing resume or job description text.">> >>)
    ELSE MatchCleaned(resume_text, jd_text, _preprocess_text(resume_text),
                      _preprocess_text(jd_text), available, order)

(***************************************************************************)
(* Specification of the matcher: the two texts and the availability of the *)
(* semantic backend are drawn in the initial state; the order in which the *)
(* set remaining_jd is iterated is chosen when a call runs.                *)
(***************************************************************************)
JdNoOutput ==
    [status |-> "none", match_score |-> 0, keyword_overlap |-> <<>>,
     missing_keywords |-> <<>>, semantic_matches |-> <<>>, feedback |-> <<>>]

InitJD ==
    /\ op = "init"
    /\ inp \in [resume_text : SeqsUpTo(JdAlphabet, MaxWords),
               jd_text : SeqsUpTo(JdAlphabet, MaxWords), available : BOOLEAN]
    /\ out = JdNoOutput

\* the tuple of _calculate_keyword_overlap as a record of the output's shape
AsOutput(k) ==
    [status |-> "returned", match_score |-> (k.num * 100) \div k.den,
     keyword_overlap |-> k.matched, missing_keywords |-> k.missing,
     semantic_matches |-> <<>>, feedback |-> <<>>]

CalculateKeywordOverlap ==
    /\ op = "init"
    /\ \E order \in Orders(RemainingJd(inp.resume_text, inp.jd_text)) :
           out' = AsOutput(_calculate_keyword_overlap(inp.resume_text, inp.jd_text, order))
    /\ op' = "_calculate_keyword_overlap"
    /\ UNCHANGED inp

MatchResumeToJd ==
    /\ op = "init"
    /\ \E order \in Orders(RemainingJd(_preprocess_text(inp.resume_text),
                                       _preprocess_text(inp.jd_text))) :
           out' = match_resume_to_jd(inp.resume_text, inp.jd_text, inp.available, order)
    /\ op' = "match_resume_to_jd"
    /\ UNCHANGED inp

NextJD == CalculateKeywordOverlap \/ MatchResumeToJd

SpecJD == InitJD /\ [][NextJD]_vars

(***************************************************************************)
(* Properties of the text normaliser.                                      *)
(***************************************************************************)
EmptyInput == inp.kind \in {"None", "falsy"} \/ (inp.kind = "str" /\ inp.toks = <<>>)

\* C7: clean_resume_text is idempotent: cleaning the result of a call a
\* second time returns it unchanged, for every text.
C7_Idempotent ==
    (op = "clean_twice" /\ inp.kind = "str" /\ inp.failAt = 0)
        => out.twice = out.text

\* a is b with some pieces left out
RECURSIVE IsSubseq(_, _)
IsSubseq(a, b) ==
    IF a = <<>> THEN TRUE
    ELSE IF b = <<>> THEN FALSE
    ELSE IF Head(a) = Head(b) THEN IsSubseq(Tail(a), Tail(b))
    ELSE IsSubseq(a, Tail(b))

\* the result is the input with tags taken out and nothing else added, and
\* it neither starts nor ends with whitespace
IsTagStripped(result, original) ==
    /\ \A i \in 1..Len(result) : ~IsTag(result[i])
    /\ result # <<>> => IsWordPiece(result[1]) /\ IsWordPiece(result[Len(result)])
    /\ IsSubseq(SelectSeq(result, IsWordPiece), original)

NonEmptyTexts == inp.resume_text # <<>> /\ inp.jd_text # <<>>

\* the JD word is a resume keyword or within the fuzzy cutoff of one
IsMatched(w, resume_words) ==
    w \in resume_words \/ \E r \in resume_words : ReachesCutoff(r, w)

AllQualifyingMatched ==
    \A w \in KeywordsOf(_preprocess_text(inp.jd_text)) :
        IsMatched(w, KeywordsOf(_preprocess_text(inp.resume_text)))

\* C9: for non-empty texts the match_score returned by match_resume_to_jd
\* is 100 exactly when every qualifying JD token is matched by a resume
\* token, exactly or with similarity >= 0.8.
C9_FullScoreIffAllMatched ==
    (op = "match_resume_to_jd" /\ NonEmptyTexts)
        => (out.match_score = 100 <=> AllQualifyingMatched)

\* result is the keyword-only result built from the overlap tuple k
IsKeywordOnly(result, k) ==
    /\ result.match_score = ScoreOf(k)
    /\ result.keyword_overlap = k.matched
    /\ result.missing_keywords = k.missing
    /\ result.semantic_matches = <<>>
    /\ result.feedback # <<>>
    /\ result.feedback[1] = KeywordVerdict(k)
    /\ k.missing # <<>> =>
           /\ Len(result.feedback) >= 2
           /\ result.feedback[2] = MissingLine(k.missing)[1]
           /\ Len(result.feedback[2]) <= 1 + 5 + 1

\* C10: without the semantic backend, match_resume_to_jd on non-empty texts
\* returns the keyword-only result, not an error result: the score and the
\* two keyword lists come from the keyword overlap, semantic_matches is
\* empty, and the feedback starts with the score-band verdict followed by
\* at most five missing keywords.
C10_KeywordOnlyWhenUnavailable ==
    (op = "match_resume_to_jd" /\ NonEmptyTexts /\ ~inp.available)
        => \E order \in Orders(RemainingJd(_preprocess_text(inp.resume_text),
                                           _preprocess_text(inp.jd_text))) :
               IsKeywordOnly(out, _calculate_keyword_overlap(
                                      _preprocess_text(inp.resume_text),
                                      _preprocess_text(inp.jd_text), order))

(***************************************************************************)
(* Career suggestions (career_suggestions.py)                              *)
(***************************************************************************)
MaxCvTok == 2

\* fractions in lowest terms, with positive denominators, and their order
RECURSIVE Gcd(_, _)
Gcd(a, b) == IF b = 0 THEN a ELSE Gcd(b, a % b)

Frac(n, d) == [num |-> n \div Gcd(n, d), den |-> d \div Gcd(n, d)]

FracLess(a, b) == a.num * b.den < b.num * a.den

\* the states of an optional JSON data file
FileStates == {"absent", "unreadable", "invalid", "valid"}

\* the built-in table, in the order of the dict; interests: which of the
\* interests "data" and "cloud" occur in the title or in a required skill
career_data == <<
    [title |-> "Data Scientist",
     required_skills |-> <<"python", "machine learning", "statistics", "data analysis", "sql", "pandas", "numpy", "data visualization">>,
     preferred_skills |-> <<"deep learning", "tensorflow", "pytorch", "scikit-learn", "big data", "cloud computing">>,
     salary_range |-> <<95000, 165000>>,
     experience_levels |-> {"entry", "mid", "senior"},
     interests |-> {"data"}],
    [title |-> "Machine Learning Engineer",
     required_skills |-> <<"python", "machine learning", "deep learning", "tensorflow", "pytorch", "software engineering", "mlops">>,
     preferred_skills |-> <<"kubernetes", "docker", "aws/azure/gcp", "data pipelines", "model deployment">>,
     salary_range |-> <<110000, 200000>>,
     experience_levels |-> {"entry", "mid", "senior"},
     interests |-> {}],
    [title |-> "Data Engineer",
     required_skills |-> <<"sql", "python", "etl", "data warehousing", "big data", "apache spark">>,
     preferred_skills |-> <<"aws/azure/gcp", "airflow", "kafka", "hadoop", "data modeling">>,
     salary_range |-> <<95000, 170000>>,
     experience_levels |-> {"entry", "mid", "senior"},
     interests |-> {"data"}],
    [title |-> "DevOps Engineer",
     required_skills |-> <<"aws/azure/gcp", "docker", "kubernetes", "ci/cd", "linux", "infrastructure as code">>,
     preferred_skills |-> <<"terraform", "ansible", "prometheus", "grafana", "gitops">>,
     salary_range |-> <<100000, 180000>>,
     experience_levels |-> {"entry", "mid", "senior"},
     interests |-> {}],
    [title |-> "Cloud Solutions Architect",
     required_skills |-> <<"aws/azure/gcp", "cloud architecture", "networking", "security", "infrastructure as code">>,
     preferred_skills |-> <<"kubernetes", "serverless", "microservices", "devops", "cost optimization">>,
     salary_range |-> <<120000, 220000>>,
     experience_levels |-> {"mid", "senior"},
     interests |-> {"cloud"}],
    [title |-> "Cybersecurity Analyst",
     required_skills |-> <<"security", "networking", "linux", "python", "incident response", "vulnerability assessment">>,
     preferred_skills |-> <<"siem", "ids/ips", "penetration testing", "threat intelligence", "cloud security">>,
     salary_range |-> <<90000, 160000>>,
     experience_levels |-> {"entry", "mid", "senior"},
     interests |-> {}],
    [title |-> "AI Research Scientist",
     required_skills |-> <<"machine learning", "deep learning", "research", "python", "pytorch/tensorflow">>,
     preferred_skills |-> <<"reinforcement learning", "nlp", "computer vision", "publications", "mathematics">>,
     salary_range |-> <<120000, 220000>>,
     experience_levels |-> {"phd", "research_scientist", "senior"},
     interests |-> {}],
    [title |-> "Data Analyst",
     required_skills |-> <<"sql", "excel", "data visualization", "statistics", "python/r">>,
     preferred_skills |-> <<"tableau", "power bi", "google analytics", "a/b testing">>,
     salary_range |-> <<65000, 120000>>,
     experience_levels |-> {"entry", "mid", "senior"},
     interests |-> {"data"}]>>


\* the loader without its except clause: what open and json.load raise
\* leaves the function
FileLoadUncaught(file, content, default) ==
    IF file = "absent" THEN [status |-> "returned", exc |-> None, value |-> default]
    ELSE IF file = "unreadable" THEN [status |-> "raised", exc |-> "OSError", value |-> None]
    ELSE IF file = "invalid"
    THEN [status |-> "raised", exc |-> "JSONDecodeError", value |-> None]
    ELSE [status |-> "returned", exc |-> None, value |-> content]

\* try: if data_file.exists(): open, json.load, return; except Exception:
\* log; then the built-in default.  exists() is false for an absent file,
\* open raises on an unreadable file and json.load on invalid JSON, and
\* both exceptions are caught; content is what a valid file holds
FileLoad(file, content, default) ==
    IF file = "absent" THEN [status |-> "returned", exc |-> None, value |-> default]
    ELSE IF file \in {"unreadable", "invalid"}
    THEN [status |-> "returned", exc |-> None, value |-> default]
    ELSE [status |-> "returned", exc |-> None, value |-> content]

\* the catalog a valid data file holds here: one career
CareerFile ==
    <<[title |-> "Go Developer", required_skills |-> <<"go">>,
       preferred_skills |-> <<>>, salary_range |-> <<>>,
       experience_levels |-> {}, interests |-> {}]>>

load_career_data(file) == FileLoad(file, CareerFile, career_data).value

\* the pieces resume texts are made of (joined by single spaces) with what
\* the patterns of extract_skills, analyze_experience_level,
\* extract_technologies, generate_questions and of resume_analyzer.py
\* find in them: skills matched as words, skills occurring as substrings,
\* the number of `N years experience' (-1: no match), a leadership term,
\* the word `experience', a newline followed by a dash, the (category,
\* technology) pairs matched as words, the number of `N+ years ...
\* experience' (-1: no match), a senior keyword, the common_skills
\* occurring as substrings, the number of words and of words after
\* `experience', the word `education', the words of the first line, a
\* newline
CvFacts ==
    [t \in {"Python", "SQL", "kafka", "nlp", "hello", "senior",
            "2 years experience", "3+ years of experience",
            "5 years of experience", "12 yrs experience",
            "Experience\n- used django", "Education\nBSc at MIT"} |->
        [skills |-> CASE t = "Python" -> {"python"}
                      [] t = "SQL" -> {"sql"}
                      [] t = "kafka" -> {"kafka"}
                      [] t = "nlp" -> {"nlp"}
                      [] t = "Experience\n- used django" -> {"django", "go", "r"}
                      [] OTHER -> {},
         substr |-> CASE t = "Python" -> {"python"}
                      [] t = "SQL" -> {"sql"}
                      [] t = "kafka" -> {"kafka"}
                      [] t = "nlp" -> {"nlp"}
                      [] t \in {"hello", "Education\nBSc at MIT"} -> {}
                      [] t = "Experience\n- used django" -> {"django", "go", "r"}
                      [] OTHER -> {"r"},
         years |-> CASE t = "2 years experience" -> 2
                     [] t = "5 years of experience" -> 5
                     [] t = "12 yrs experience" -> 12
                     [] OTHER -> -1,
         leadership |-> t = "senior",
         experience |-> t \in {"2 years experience", "3+ years of experience",
                               "5 years of experience", "12 yrs experience",
                               "Experience\n- used django"},
         bullet |-> t = "Experience\n- used django",
         technologies |-> CASE t = "Python" -> {<<"programming_languages", "python">>}
                            [] t = "nlp" -> {<<"data_science", "nlp">>}
                            [] t = "Experience\n- used django" -> {<<"frameworks", "django">>}
                            [] OTHER -> {},
         years_plus |-> CASE t = "2 years experience" -> 2
                          [] t = "3+ years of experience" -> 3
                          [] t = "5 years of experience" -> 5
                          [] t = "12 yrs experience" -> 12
                          [] OTHER -> -1,
         senior_role |-> t = "senior",
         common |-> CASE t = "Python" -> {"Python"}
                      [] t = "SQL" -> {"SQL"}
                      [] t = "kafka" -> {"Kafka"}
                      [] t = "Experience\n- used django" -> {"Go", "Django"}
                      [] OTHER -> {},
         words |-> CASE t \in {"2 years experience", "12 yrs experience"} -> 3
                     [] t \in {"3+ years of experience", "5 years of experience",
                               "Experience\n- used django", "Education\nBSc at MIT"} -> 4
                     [] OTHER -> 1,
         after_experience |-> IF t = "Experience\n- used django" THEN 3 ELSE 0,
         education |-> t = "Education\nBSc at MIT",
         line_words |-> CASE t = "2 years experience" -> <<"2", "years", "experience">>
                          [] t = "3+ years of experience" -> <<"3+", "years", "of", "experience">>
                          [] t = "5 years of experience" -> <<"5", "years", "of", "experience">>
                          [] t = "12 yrs experience" -> <<"12", "yrs", "experience">>
                          [] t = "Experience\n- used django" -> <<"Experience">>
                          [] t = "Education\nBSc at MIT" -> <<"Education">>
                          [] OTHER -> <<t>>,
         newline |-> t \in {"Experience\n- used django", "Education\nBSc at MIT"}]]

\* the word matches of the whole text, and the substring matches of the
\* experience section: from the first `experience' to the end of the text,
\* if a bullet follows it
extract_skills(text) ==
    UNION {CvFacts[text[i]].skills : i \in 1..Len(text)}
    \cup UNION {CvFacts[text[j]].substr :
                  j \in {j \in 1..Len(text) :
                           \E i \in 1..j : \E k \in i..Len(text) :
                               CvFacts[text[i]].experience /\ CvFacts[text[k]].bullet}}

\* the level by the years alone, without the leadership terms
LevelByYearsOnly(text) ==
    LET withYears == {i \in 1..Len(text) : CvFacts[text[i]].years >= 0}
        years_exp == IF withYears = {} THEN 0
                     ELSE CvFacts[text[CHOOSE i \in withYears :
                                         \A j \in withYears : i <= j]].years
    IN  IF years_exp >= 10 THEN "senior"
        ELSE IF years_exp >= 2 THEN "mid"
        ELSE "entry"

\* years_exp is the number of the first match, 0 without one
analyze_experience_level(text) ==
    LET withYears == {i \in 1..Len(text) : CvFacts[text[i]].years >= 0}
        years_exp == IF withYears = {} THEN 0
                     ELSE CvFacts[text[CHOOSE i \in withYears :
                                         \A j \in withYears : i <= j]].years
        has_leadership == \E i \in 1..Len(text) : CvFacts[text[i]].leadership
    IN  IF text = <<>> THEN "entry"
        ELSE IF years_exp >= 10 \/ (has_leadership /\ years_exp >= 5) THEN "senior"
        ELSE IF years_exp >= 5 \/ has_leadership THEN "mid"
        ELSE IF years_exp >= 2 THEN "mid"
        ELSE "entry"

\* [score, matching, missing, preferred, missing_preferred]; the skill
\* names are lower case already.  The relevance of the required skill at
\* place i (from 1) is 1.0 - (i - 1) * 0.05, here in twentieths; score is
\* final_score as the fraction num / den: weighted_match * 0.6 is
\* 12 * ws / (20 * total), preferred_bonus * 0.3 is 3 * mp / (20 * np)
calculate_match_score(resume_skills, career) ==
    LET required == career.required_skills
        preferred == career.preferred_skills
        ws == SumSeq([i \in 1..Len(required) |->
                        IF required[i] \in resume_skills THEN 20 - (i - 1) ELSE 0])
        total == SumSeq([i \in 1..Len(required) |-> 20 - (i - 1)])
        mp == Len(SelectSeq(preferred, LAMBDA s : s \in resume_skills))
        np == Len(preferred)
    IN  IF required = <<>>
        THEN [score |-> Frac(0, 1), matching |-> <<>>, missing |-> <<>>,
              preferred |-> <<>>, missing_preferred |-> <<>>]
        ELSE [score |-> IF np = 0
                        THEN Frac(Min(12 * ws, 20 * total), 20 * total)
                        ELSE Frac(Min(12 * ws * np + 3 * mp * total, 20 * total * np),
                                  20 * total * np),
              matching |-> SelectSeq(required, LAMBDA s : s \in resume_skills),
              missing |-> SelectSeq(required, LAMBDA s : s \notin resume_skills),
              preferred |-> SelectSeq(preferred, LAMBDA s : s \in resume_skills),
              missing_preferred |-> SelectSeq(preferred, LAMBDA s : s \notin resume_skills)]

\* [raised, value]: `for skill, rel in suggestion.matching_skills' unpacks
\* each skill, a string, and only a string of two characters unpacks into a
\* pair; match_score is round(match_score, 1) in tenths of a percent, a
\* half going to the even tenth
format_career_suggestion(suggestion) ==
    LET f == suggestion.match_score
        q == (10 * f.num) \div f.den
        r == (10 * f.num) % f.den
    IN  [raised |-> \E i \in 1..Len(suggestion.matching_skills) :
                        suggestion.matching_skills[i] \notin {"go", "c#"},
         value |->
            [title |-> suggestion.title,
             match_score |-> IF 2 * r > f.den \/ (2 * r = f.den /\ q % 2 = 1)
                             THEN q + 1 ELSE q,
             salary_range |-> suggestion.salary_range,
             matching |-> suggestion.matching_skills,
             missing |-> suggestion.missing_skills,
             matching_preferred |-> suggestion.matching_preferred_skills,
             missing_preferred |-> suggestion.missing_preferred_skills,
             current_experience_level |-> suggestion.current_experience_level]]

\* what a call of suggest_career_paths leaves: the list returned or the
\* exception, and the sorted list `suggestions'
CareerResult(status, exc, value, kept) ==
    [status |-> status, exc |-> exc, value |-> value, kept |-> kept]

\* min_match_threshold is in tenths; experience_level is None or a level;
\* career_interests is None (the empty set) or a list; file is the state
\* of career_paths.json.  A suggestion keeps the score calculate_match_score
\* returned as base; its match_score is a fraction of a percent
\* the filter without the count of required skills
PassesThresholdsScoreOnly(analysis, min_match_threshold, min_required_skills) ==
    ~FracLess(analysis.score, Frac(min_match_threshold, 10))

\* the negation of `match_score < min_match_threshold or
\* len(skill_analysis.get('matching', [])) < min_required_skills'
PassesThresholds(analysis, min_match_threshold, min_required_skills) ==
    /\ ~FracLess(analysis.score, Frac(min_match_threshold, 10))
    /\ Len(analysis.matching) >= min_required_skills

\* the guard without `not resume_text': only the type is checked
InvalidResumeTextTypeOnly(resume_text) == resume_text.kind # "str"

\* `not resume_text or not isinstance(resume_text, str)'
InvalidResumeText(resume_text) == resume_text.kind # "str" \/ resume_text.toks = <<>>

\* the loop over the catalog: the suggestions made from the careers that
\* match the interests and pass the thresholds, the score boosted for a
\* career that lists the experience level, unless it is `entry'
KeptSuggestions(resume_skills, level, min_match_threshold, min_required_skills, career_interests, catalog) ==
    LET Passes(career) ==
            /\ career_interests = {} \/ career_interests \cap career.interests # {}
            /\ PassesThresholds(calculate_match_score(resume_skills, career),
                                min_match_threshold, min_required_skills)
        Boosted(score, career) ==
            IF level \in career.experience_levels /\ level # "entry"
            THEN Frac(Min(11 * score.num, 10 * score.den), 10 * score.den)
            ELSE score
        Suggestion(career, analysis, boosted) ==
            [title |-> career.title,
             base |-> analysis.score,
             match_score |-> Frac(100 * boosted.num, boosted.den),
             matching_skills |-> analysis.matching,
             missing_skills |-> analysis.missing,
             salary_range |-> career.salary_range,
             matching_preferred_skills |-> analysis.preferred,
             missing_preferred_skills |-> analysis.missing_preferred,
             current_experience_level |-> level]
        Made(career, analysis) == Suggestion(career, analysis, Boosted(analysis.score, career))
    IN  [i \in 1..Len(SelectSeq(catalog, Passes)) |->
            Made(SelectSeq(catalog, Passes)[i],
                 calculate_match_score(resume_skills, SelectSeq(catalog, Passes)[i]))]

\* suggestions.sort(key=(match_score, matching + 0.5 * matching preferred),
\* reverse=True): descending and stable
SortSuggestions(suggestions) ==
    LET KeyLess(a, b) ==
            \/ FracLess(a.match_score, b.match_score)
            \/ /\ ~FracLess(b.match_score, a.match_score)
               /\ 2 * Len(a.matching_skills) + Len(a.matching_preferred_skills)
                      < 2 * Len(b.matching_skills) + Len(b.matching_preferred_skills)
        Rank(i) == 1 + Cardinality({j \in 1..Len(suggestions) :
                        \/ KeyLess(suggestions[i], suggestions[j])
                        \/ (~KeyLess(suggestions[j], suggestions[i]) /\ j < i)})
    IN  [p \in 1..Len(suggestions) |->
            suggestions[CHOOSE i \in 1..Len(suggestions) : Rank(i) = p]]

\* [format_career_suggestion(s) for s in suggestions[:top_n]]
FormatTop(sorted, top_n) ==
    LET top == IF top_n >= 0 THEN SubSeq(sorted, 1, Min(top_n, Len(sorted)))
               ELSE SubSeq(sorted, 1, Max(0, Len(sorted) + top_n))
    IN  IF \E i \in 1..Len(top) : format_career_suggestion(top[i]).raised
        THEN CareerResult("raised", "ValueError", <<>>, sorted)
        ELSE CareerResult("returned", None,
                 [i \in 1..Len(top) |-> format_career_suggestion(top[i]).value], sorted)

\* the placeholder returned when no skill is extracted
Placeholder(level) ==
    <<[title |-> "General IT Professional", match_score |-> 0,
       salary_range |-> <<>>, matching |-> <<>>, missing |-> <<>>,
       matching_preferred |-> <<>>, missing_preferred |-> <<>>,
       current_experience_level |-> level]>>

\* the experience level the call works with
LevelOf(resume_text, experience_level) ==
    IF experience_level = None THEN analyze_experience_level(resume_text.toks)
    ELSE experience_level

suggest_career_paths(resume_text, top_n, min_match_threshold, min_required_skills, experience_level, career_interests, file) ==
    IF InvalidResumeText(resume_text)
    THEN CareerResult("returned", None, <<>>, <<>>)
    ELSE IF extract_skills(resume_text.toks) = {}
    THEN CareerResult("returned", None,
                      Placeholder(LevelOf(resume_text, experience_level)), <<>>)
    ELSE FormatTop(SortSuggestions(KeptSuggestions(
                       extract_skills(resume_text.toks),
                       LevelOf(resume_text, experience_level),
                       min_match_threshold, min_required_skills, career_interests,
                       load_career_data(file))),
                   top_n)

(***************************************************************************)
(* Interview questions (interview_prep.py)                                 *)
(***************************************************************************)
\* the built-in bank; a question carries the category generate_questions
\* gives it: `<Lang> Programming', `Data Science - <Topic>', `System
\* Design', `Algorithms', `Behavioral'; the data science topics are
\* flattened in the order of the dict
question_bank ==
    [programming_languages |-> [
        python |-> <<
         [question |-> "Explain Python's Global Interpreter Lock (GIL) and its implications.",
          category |-> "Python Programming", difficulty |-> "intermediate",
          tags |-> {"concurrency", "performance", "cpython"}],
         [question |-> "What are Python decorators and how would you use them?",
          category |-> "Python Programming", difficulty |-> "intermediate",
          tags |-> {"functions", "syntax", "design patterns"}],
         [question |-> "How does Python manage memory?",
          category |-> "Python Programming", difficulty |-> "advanced",
          tags |-> {"memory management", "performance"}]>>,
        javascript |-> <<
         [question |-> "Explain the event loop in JavaScript.",
          category |-> "Javascript Programming", difficulty |-> "intermediate",
          tags |-> {"asynchronous", "concurrency"}]>>,
        java |-> <<
         [question |-> "What is the difference between an interface and an abstract class in Java?",
          category |-> "Java Programming", difficulty |-> "intermediate",
          tags |-> {"OOP", "inheritance", "abstraction"}]>>],
     data_science |-> <<
         [question |-> "Explain the bias-variance tradeoff.",
          category |-> "Data Science - Machine Learning", difficulty |-> "intermediate",
          tags |-> {"modeling", "theory"}],
         [question |-> "What is the difference between bagging and boosting?",
          category |-> "Data Science - Machine Learning", difficulty |-> "intermediate",
          tags |-> {"ensemble methods", "algorithms"}],
         [question |-> "What is the vanishing gradient problem and how can it be addressed?",
          category |-> "Data Science - Deep Learning", difficulty |-> "advanced",
          tags |-> {"neural networks", "training", "optimization"}]>>,
     system_design |-> <<
         [question |-> "How would you design a URL shortening service like bit.ly?",
          category |-> "System Design", difficulty |-> "advanced",
          tags |-> {"distributed systems", "scalability"}],
         [question |-> "Design a distributed key-value store.",
          category |-> "System Design", difficulty |-> "advanced",
          tags |-> {"distributed systems", "storage"}]>>,
     algorithms |-> <<
         [question |-> "Implement an LRU cache.",
          category |-> "Algorithms", difficulty |-> "medium",
          tags |-> {"data structures", "caching"}],
         [question |-> "Find the kth largest element in an unsorted array.",
          category |-> "Algorithms", difficulty |-> "medium",
          tags |-> {"arrays", "sorting", "searching"}]>>,
     behavioral |-> <<
         [question |-> "Tell me about a time you faced a difficult technical challenge and how you overcame it.",
          category |-> "Behavioral", difficulty |-> "all",
          tags |-> {"experience", "problem-solving"}],
         [question |-> "Describe a situation where you had to work with a difficult team member.",
          category |-> "Behavioral", difficulty |-> "all",
          tags |-> {"teamwork", "communication"}]>>]

\* the bank a valid data file holds here: one algorithms question
QuestionFile ==
    [programming_languages |-> <<>>, data_science |-> <<>>,
     system_design |-> <<>>,
     algorithms |-> <<[question |-> "Reverse a linked list.",
                       category |-> "Algorithms", difficulty |-> "easy",
                       tags |-> {"lists"}]>>,
     behavioral |-> <<>>]

\* the same try/except as in load_career_data, with the built-in bank
load_question_bank(file) == FileLoad(file, QuestionFile, question_bank).value

\* the dict of the technologies found, as the set of its (category,
\* technology) pairs
extract_technologies(text) == UNION {CvFacts[text[i]].technologies : i \in 1..Len(text)}

\* the condition without the years of experience
WantsSystemDesignByRoleOnly(text) ==
    \E i \in 1..Len(text) : CvFacts[text[i]].senior_role

\* `has_senior_role or (experience_match and int(...) >= 3)': the number
\* is that of the first match of `N+ years ... experience'
WantsSystemDesign(text) ==
    LET withYears == {i \in 1..Len(text) : CvFacts[text[i]].years_plus >= 0}
        years == IF withYears = {} THEN -1
                 ELSE CvFacts[text[CHOOSE i \in withYears :
                                     \A j \in withYears : i <= j]].years_plus
        has_senior_role == \E i \in 1..Len(text) : CvFacts[text[i]].senior_role
    IN  has_senior_role \/ years >= 3

\* [raised, pool, filtered]: relevant_questions before and after the two
\* filters.  `cat.lower()' is called on the lists of a non-empty
\* technologies dict that has no data_science key, and a list has no
\* lower.  categories is None (the empty set) or a list of lower-case
\* words; difficulty is lower case
RelevantQuestions(text, difficulty, categories, bank) ==
    LET technologies == extract_technologies(text)
        langs == {p[2] : p \in {p \in technologies : p[1] = "programming_languages"}}
        has_data_science == \E p \in technologies : p[1] = "data_science"
        \* the filter words a category contains
        Words(category) ==
            CASE category = "Algorithms" -> {"algorithms"}
              [] category = "Behavioral" -> {"behavioral"}
              [] category = "System Design" -> {"design"}
              [] category = "Python Programming" -> {"programming"}
              [] OTHER -> {"data"}
        \* the languages found that the bank has questions for
        asked == SelectSeq(<<"python", "javascript", "java">>,
                           LAMBDA l : l \in langs \cap DOMAIN bank.programming_languages)
        pool == Flatten([i \in 1..Len(asked) |-> bank.programming_languages[asked[i]]])
                \o (IF has_data_science THEN bank.data_science ELSE <<>>)
                \o (IF WantsSystemDesign(text) THEN bank.system_design ELSE <<>>)
                \o bank.algorithms
                \o bank.behavioral
        ByDifficulty(q) == difficulty = "all" \/ q.difficulty \in {difficulty, "all"}
        ByCategory(q) ==
            categories = {} \/ Words(q.category) \cap categories # {}
                            \/ q.tags \cap categories # {}
    IN  [raised |-> technologies # {} /\ ~has_data_science,
         pool |-> pool,
         filtered |-> SelectSeq(SelectSeq(pool, ByDifficulty), ByCategory)]

\* the length of relevant_questions[:num_questions]
SliceLen(n, num_questions) ==
    IF num_questions >= 0 THEN Min(num_questions, n) ELSE Max(0, n + num_questions)

\* picked: the places of the filtered list that random.shuffle moves into
\* the slice returned; the questions are listed in the order of the pool
generate_questions(resume_text, num_questions, difficulty, categories, file, picked) ==
    IF resume_text.kind # "str" \/ resume_text.toks = <<>>
    THEN [status |-> "returned", exc |-> None, value |-> <<>>, pool |-> <<>>]
    ELSE IF RelevantQuestions(resume_text.toks, difficulty, categories,
                              load_question_bank(file)).raised
    THEN [status |-> "raised", exc |-> "AttributeError", value |-> <<>>, pool |-> <<>>]
    ELSE [status |-> "returned", exc |-> None,
          value |-> Flatten(
              [i \in 1..Len(RelevantQuestions(resume_text.toks, difficulty, categories,
                                              load_question_bank(file)).filtered) |->
                  IF i \in picked
                  THEN <<RelevantQuestions(resume_text.toks, difficulty, categories,
                                           load_question_bank(file)).filtered[i]>>
                  ELSE <<>>]),
          pool |-> RelevantQuestions(resume_text.toks, difficulty, categories,
                                     load_question_bank(file)).pool]

(***************************************************************************)
(* Resume analysis (resume_analyzer.py)                                    *)
(***************************************************************************)
\* the experience section runs from the first `experience' to the end of
\* the text; it holds no year, `present' or `current' to split it at, and
\* it is kept as one entry when it has five words or more.  An entry is
\* modelled by the pieces its section is made of.  Exceptions are caught
\* inside and give []
extract_experience(text) ==
    LET headers == {i \in 1..Len(text) : CvFacts[text[i]].experience}
        first == CHOOSE i \in headers : \A j \in headers : i <= j
    IN  IF headers = {} THEN <<>>
        ELSE IF CvFacts[text[first]].after_experience
                + SumSeq([j \in 1..(Len(text) - first) |-> CvFacts[text[first + j]].words]) < 5
        THEN <<>>
        ELSE <<[section |-> SubSeq(text, first, Len(text))]>>

\* [raised, summary]: `experience.get' is evaluated when the resume has
\* experiences, and experience is a list; the summary is modelled by the
\* openings of its sentences
generate_professional_summary(resume_data, experience) ==
    LET technical == SelectSeq(resume_data.skills, LAMBDA x : x \in {"Python", "Go", "Django"})
        framework == SelectSeq(resume_data.skills, LAMBDA x : x = "Django")
        parts == (IF technical # <<>> THEN <<"Proficient in">> ELSE <<>>)
                 \o (IF framework # <<>> THEN <<"experienced with">> ELSE <<>>)
                 \o (IF resume_data.education # <<>> THEN <<"Holds a">> ELSE <<>>)
    IN  IF resume_data.experiences # <<>>
        THEN [raised |-> TRUE, summary |-> None]
        ELSE [raised |-> FALSE,
              summary |-> IF parts # <<>> THEN parts \o <<"Seeking opportunities">>
                          ELSE <<"No professional summary available.">>]

\* the ResumeData a call returns; failed names the step whose exception
\* the except clause of analyze_resume caught
ResumeData(name, skills, experiences, education, summary, failed) ==
    [status |-> "returned", exc |-> None, name |-> name, skills |-> skills,
     experiences |-> experiences, education |-> education, summary |-> summary,
     failed |-> failed]

\* the patterns of extract_contact_info raise TypeError for a text that is
\* not a string; of the contact fields the pieces hold the name only: the
\* first two words of the first line, if it has two
analyze_resume(text) ==
    LET toks == text.toks
        breaks == {i \in 1..Len(toks) : CvFacts[toks[i]].newline}
        line == Flatten([i \in 1..(IF breaks = {} THEN Len(toks)
                                   ELSE CHOOSE i \in breaks : \A j \in breaks : i <= j) |->
                            CvFacts[toks[i]].line_words])
        name == IF Len(line) >= 2 THEN <<line[1], line[2]>> ELSE None
        found == UNION {CvFacts[toks[i]].common : i \in 1..Len(toks)}
        skills == SelectSeq(<<"Python", "Go", "SQL", "Django", "Kafka">>,
                            LAMBDA x : x \in found)
        schools == {i \in 1..Len(toks) : CvFacts[toks[i]].education}
        education ==
            IF schools = {} THEN <<>>
            ELSE <<[degree |-> "BSc",
                    section |-> SubSeq(toks, CHOOSE i \in schools : \A j \in schools : i <= j,
                                       Len(toks))]>>
        experiences == SubSeq(extract_experience(toks), 1,
                              Min(5, Len(extract_experience(toks))))
        result == generate_professional_summary(
                      [skills |-> skills, experiences |-> experiences,
                       education |-> SubSeq(education, 1, Min(3, Len(education)))],
                      extract_experience(toks))
    IN  IF text.kind # "str"
        THEN ResumeData(None, <<>>, <<>>, <<>>, None, "contact")
        ELSE IF result.raised
        THEN ResumeData(name, skills, experiences,
                        SubSeq(education, 1, Min(3, Len(education))), None, "summary")
        ELSE ResumeData(name, skills, experiences,
                        SubSeq(education, 1, Min(3, Len(education))), result.summary, None)

(***************************************************************************)
(* Specification of the advice modules: career suggestions, interview      *)
(* questions, resume analysis and the two loaders of reference data        *)
(***************************************************************************)
\* the resume texts: up to MaxCvTok pieces, or a value that is no string
AdviceTexts ==
    [kind : {"str"}, toks : SeqsUpTo(DOMAIN CvFacts, MaxCvTok)]
    \cup [kind : {"None"}, toks : {<<>>}]

InitAdvice ==
    /\ op = "init"
    /\ inp = None
    /\ out = NoOutput

\* suggest_career_paths(resume_text, top_n, min_match_threshold,
\* min_required_skills, experience_level, career_interests); the threshold
\* is counted in tenths
SuggestCareerPaths ==
    /\ op = "init"
    /\ \E resume_text \in AdviceTexts, top_n \in {0, 1, 5}, min_match_threshold \in {0, 1, 2},
          min_required_skills \in {1, 2}, experience_level \in {None, "senior"},
          career_interests \in {{}, {"data"}}, file \in {"absent", "valid"} :
           /\ inp' = [resume_text |-> resume_text, top_n |-> top_n,
                      min_match_threshold |-> min_match_threshold,
                      min_required_skills |-> min_required_skills,
                      experience_level |-> experience_level,
                      career_interests |-> career_interests, file |-> file]
           /\ out' = suggest_career_paths(resume_text, top_n, min_match_threshold,
                                          min_required_skills, experience_level,
                                          career_interests, file)
    /\ op' = "suggest_career_paths"

\* generate_questions(resume_text, num_questions, difficulty, categories);
\* random.shuffle may bring any of the filtered questions into the slice
GenerateQuestions ==
    /\ op = "init"
    /\ \E resume_text \in AdviceTexts, num_questions \in {-1, 0, 1, 10},
          difficulty \in {"all", "advanced"}, categories \in {{}, {"algorithms"}},
          file \in {"absent", "valid"} :
         LET n == Len(RelevantQuestions(resume_text.toks, difficulty, categories,
                                        load_question_bank(file)).filtered)
         IN  \E picked \in {P \in SUBSET (1..n) : Cardinality(P) = SliceLen(n, num_questions)} :
               /\ inp' = [resume_text |-> resume_text, num_questions |-> num_questions,
                          difficulty |-> difficulty, categories |-> categories,
                          file |-> file]
               /\ out' = generate_questions(resume_text, num_questions, difficulty,
                                            categories, file, picked)
    /\ op' = "generate_questions"

\* analyze_resume(text)
AnalyzeResume ==
    /\ op = "init"
    /\ \E text \in AdviceTexts :
           /\ inp' = [text |-> text]
           /\ out' = analyze_resume(text)
    /\ op' = "analyze_resume"

\* load_career_data() with the data file in one of its states
LoadCareerData ==
    /\ op = "init"
    /\ \E file \in FileStates :
           /\ inp' = [file |-> file]
           /\ out' = FileLoad(file, CareerFile, career_data)
    /\ op' = "load_career_data"

\* load_question_bank() with the data file in one of its states
LoadQuestionBank ==
    /\ op = "init"
    /\ \E file \in FileStates :
           /\ inp' = [file |-> file]
           /\ out' = FileLoad(file, QuestionFile, question_bank)
    /\ op' = "load_question_bank"

\* the career profiles calculate_match_score is called with: those of the
\* built-in table, one without preferred skills and one without required
\* skills, as a data file can hold them
Profiles ==
    Range(career_data)
    \cup {[title |-> "Analyst", required_skills |-> <<"sql", "python">>,
           preferred_skills |-> <<>>, salary_range |-> <<0, 0>>,
           experience_levels |-> {"entry"}, interests |-> {}],
          [title |-> "Intern", required_skills |-> <<>>,
           preferred_skills |-> <<"python">>, salary_range |-> <<0, 0>>,
           experience_levels |-> {"entry"}, interests |-> {}]}

\* the first n elements of a list, as a set
FirstOf(list, n) == {list[i] : i \in 1..n}

\* calculate_match_score(resume_skills, career_data): the resume holds the
\* first r required and the last p preferred skills of the profile, or
\* every required skill but the first r
CalculateMatchScore ==
    /\ op = "init"
    /\ \E career \in Profiles, inverse \in BOOLEAN :
       \E r \in 0..Len(career.required_skills), p \in 0..Len(career.preferred_skills) :
           /\ inp' = [resume_skills |->
                         (IF inverse
                          THEN Range(career.required_skills) \ FirstOf(career.required_skills, r)
                          ELSE FirstOf(career.required_skills, r))
                         \cup (Range(career.preferred_skills)
                                 \ FirstOf(career.preferred_skills, Len(career.preferred_skills) - p)),
                       career |-> career]
           /\ out' = [status |-> "returned", exc |-> None,
                      value |-> calculate_match_score(inp'.resume_skills, career)]
    /\ op' = "calculate_match_score"

\* analyze_experience_level(resume_text); None is falsy as the empty text is
AnalyzeExperienceLevel ==
    /\ op = "init"
    /\ \E resume_text \in AdviceTexts :
           /\ inp' = [resume_text |-> resume_text]
           /\ out' = [status |-> "returned", exc |-> None,
                      value |-> IF resume_text.kind = "None" THEN "entry"
                                ELSE analyze_experience_level(resume_text.toks)]
    /\ op' = "analyze_experience_level"

NextAdvice ==
    \/ SuggestCareerPaths
    \/ CalculateMatchScore
    \/ AnalyzeExperienceLevel
    \/ GenerateQuestions
    \/ AnalyzeResume
    \/ LoadCareerData
    \/ LoadQuestionBank

SpecAdvice == InitAdvice /\ [][NextAdvice]_vars

(***************************************************************************)
(* Properties of the career suggestions                                    *)
(***************************************************************************)
CalledSuggest == op = "suggest_career_paths"

\* a string from which extract_skills extracts no skill
NoSkillText == inp.resume_text.kind = "str" /\ extract_skills(inp.resume_text.toks) = {}

\* the list returned is the one placeholder suggestion
OnePlaceholder ==
    /\ out.status = "returned"
    /\ Len(out.value) = 1
    /\ out.value[1].title = "General IT Professional"
    /\ out.value[1].match_score = 0
    /\ out.value[1].matching = <<>>
    /\ out.value[1].missing = <<>>

\* C11 as stated: for every text from which no skill is extracted, empty or
\* not, suggest_career_paths returns exactly one placeholder suggestion with
\* match_score 0.0 and empty matching and missing skill lists
C11_PlaceholderForEveryText ==
    (CalledSuggest /\ NoSkillText) => OnePlaceholder

\* C11 amended: for every non-empty string from which no skill is extracted
\* suggest_career_paths returns exactly one placeholder suggestion with
\* match_score 0.0 and empty matching and missing skill lists; for the empty
\* string and for a value that is no string it returns the empty list
C11_PlaceholderForNonEmptyText ==
    CalledSuggest =>
        /\ (NoSkillText /\ inp.resume_text.toks # <<>>) => OnePlaceholder
        /\ (inp.resume_text.kind # "str" \/ inp.resume_text.toks = <<>>) =>
               (out.status = "returned" /\ out.value = <<>>)

\* a non-empty text without skills got the placeholder
C11_Witness ==
    /\ CalledSuggest /\ NoSkillText
    /\ inp.resume_text.toks = <<"hello">>
    /\ inp.experience_level = None
    /\ OnePlaceholder
    /\ out.value[1].current_experience_level = "entry"

\* a string from which extract_skills extracts at least one skill
SkillText == inp.resume_text.kind = "str" /\ extract_skills(inp.resume_text.toks) # {}

\* C12: for every text with at least one extracted skill and every
\* top_n >= 0, suggest_career_paths returns without raising a list of at
\* most top_n formatted suggestions, ordered by non-increasing match_score
\* with ties ordered by non-increasing (matching_skill_count + 0.5 *
\* matching_preferred_count), each with match_score in [0, 100] (the model
\* counts the rounded percentage in tenths)
C12_ReturnsSortedTopN ==
    (CalledSuggest /\ SkillText /\ inp.top_n >= 0) =>
        /\ out.status = "returned"
        /\ Len(out.value) <= inp.top_n
        /\ \A i \in 1..Len(out.value) :
               out.value[i].match_score >= 0 /\ out.value[i].match_score <= 1000
        /\ \A i \in 1..(Len(out.value) - 1) :
               \/ out.value[i].match_score > out.value[i + 1].match_score
               \/ /\ out.value[i].match_score = out.value[i + 1].match_score
                  /\ FracLess(out.kept[i + 1].match_score, out.kept[i].match_score)
                     \/ 2 * Len(out.value[i].matching) + Len(out.value[i].matching_preferred)
                            >= 2 * Len(out.value[i + 1].matching)
                               + Len(out.value[i + 1].matching_preferred)

\* the career of the catalog in use that a kept suggestion was made from
CareerOf(suggestion) ==
    CHOOSE career \in Range(load_career_data(inp.file)) : career.title = suggestion.title

\* the experience level the call works with qualifies the career for the boost
Boostable(career) ==
    LET level == IF inp.experience_level = None
                 THEN analyze_experience_level(inp.resume_text.toks)
                 ELSE inp.experience_level
    IN  level \in career.experience_levels /\ level # "entry"

\* C13: every career suggest_career_paths keeps for a text with extracted
\* skills satisfies both filters: its score by calculate_match_score is at
\* least min_match_threshold and at least min_required_skills of its
\* required skills are found; the boost (x1.1, capped at 1.0) is applied
\* to kept careers only, so a career below the threshold is never admitted
C13_KeptPassBothFilters ==
    (CalledSuggest /\ SkillText) =>
        \A i \in 1..Len(out.kept) :
            LET k == out.kept[i]
                a == calculate_match_score(extract_skills(inp.resume_text.toks), CareerOf(k))
            IN  /\ k.base = a.score
                /\ k.matching_skills = a.matching
                /\ 10 * k.base.num >= inp.min_match_threshold * k.base.den
                /\ Len(k.matching_skills) >= inp.min_required_skills
                /\ k.match_score =
                       IF Boostable(CareerOf(k))
                       THEN Frac(100 * Min(11 * k.base.num, 10 * k.base.den), 10 * k.base.den)
                       ELSE Frac(100 * k.base.num, k.base.den)

\* a boosted career was kept while another career, which the boost would
\* have lifted over the threshold, was not
C13_Witness ==
    /\ CalledSuggest /\ SkillText
    /\ inp.min_match_threshold > 0
    /\ \E i \in 1..Len(out.kept) :
           /\ Boostable(CareerOf(out.kept[i]))
           /\ FracLess(Frac(100 * out.kept[i].base.num, out.kept[i].base.den),
                       out.kept[i].match_score)
    /\ \E career \in Range(load_career_data(inp.file)) :
           LET a == calculate_match_score(extract_skills(inp.resume_text.toks), career)
           IN  /\ Boostable(career)
               /\ Len(a.matching) >= inp.min_required_skills
               /\ 10 * a.score.num < inp.min_match_threshold * a.score.den
               /\ 11 * a.score.num >= inp.min_match_threshold * a.score.den
               /\ \A i \in 1..Len(out.kept) : out.kept[i].title # career.title

(***************************************************************************)
(* Properties of the interview questions                                   *)
(***************************************************************************)
CalledGenerate == op = "generate_questions"

\* C14: for every text, every integer num_questions, every difficulty and
\* every categories filter, the list generate_questions returns has at most
\* num_questions questions and no question appears in it twice (for a
\* negative num_questions the empty list is accepted)
C14_AtMostNumQuestions ==
    (CalledGenerate /\ out.status = "returned") =>
        /\ Len(out.value) <= Max(0, inp.num_questions)
        /\ \A i, j \in 1..Len(out.value) :
               out.value[i].question = out.value[j].question => i = j

(***************************************************************************)
(* Properties of the work-experience extraction                            *)
(***************************************************************************)
\* the block of the example: a `<title> at <company>' line, a date-range
\* line ending in `Present', a bullet line with a metric
ExampleBlock ==
    <<"Senior Software Engineer at Acme Corp", "Jan 2020 - Present",
      "- Increased throughput by 30%">>

\* C15: work-experience extraction on the example block yields exactly one
\* entry whose title contains the job title of the first line, whose
\* company is the company of the first line, which is marked current (its
\* end date is 'Present') and which has exactly one bullet, with
\* has_metrics true
C15_ExampleBlockEntry ==
    (CalledScore /\ inp.text = [lines |-> ExampleBlock, pad |-> 0]) =>
        LET result == _extract_work_experience(FullLines(inp.text))
        IN  /\ ~result.raised
            /\ Len(result.entries) = 1
            /\ result.entries[1].title = "Senior Software Engineer"
            /\ result.entries[1].company = "Acme Corp"
            /\ result.entries[1].end_date = "Present"
            /\ Len(result.entries[1].bullet_points) = 1
            /\ result.entries[1].bullet_points[1].has_metrics

\* the date-range lines of the input, in order
DateLines == SelectSeq(FullLines(inp.text), LAMBDA l : LineFacts[l].date_kind # "none")

\* C20: after _extract_work_experience has scanned any sequence of lines,
\* the entries emitted are as many as the lines matching the date-range
\* pattern and appear in the order of their date lines (each date line
\* closes the open entry and opens the next, the last open entry is
\* flushed once); a text without a date line yields no entry
C20_OneEntryPerDateLine ==
    (CalledScore /\ inp.kind = "str") =>
        LET result == _extract_work_experience(FullLines(inp.text))
        IN  /\ ~result.raised
            /\ Len(result.entries) = Len(DateLines)
            /\ \A i \in 1..Len(result.entries) : result.entries[i].dates = LineFacts[DateLines[i]].dates

\* the places of the date-range lines in the text
DatePlaces == {p \in 1..Len(FullLines(inp.text)) : LineFacts[FullLines(inp.text)[p]].date_kind # "none"}

\* the lines of the i-th entry: from its date line up to the next date line
\* or the end of the text
EntryLines(i) ==
    LET start == CHOOSE p \in DatePlaces : Cardinality({q \in DatePlaces : q < p}) = i - 1
        later == {q \in DatePlaces : q > start}
        stop == IF later = {} THEN Len(FullLines(inp.text))
                ELSE (CHOOSE q \in later : \A r \in later : q <= r) - 1
    IN  SubSeq(FullLines(inp.text), start, stop)

\* the title of the first line that has one, None if no line has
FirstTitle(lines) ==
    LET with == SelectSeq(lines, LAMBDA l : LineFacts[l].title # None)
    IN  IF with = <<>> THEN None ELSE LineFacts[with[1]].title

\* the company of the first line that has one, None if no line has
FirstCompany(lines) ==
    LET with == SelectSeq(lines, LAMBDA l : LineFacts[l].company # None)
    IN  IF with = <<>> THEN None ELSE LineFacts[with[1]].company

\* the bullets of the bullet lines, in text order
BulletsOf(lines) ==
    LET with == SelectSeq(lines, LAMBDA l : LineFacts[l].is_bullet)
    IN  [k \in 1..Len(with) |-> LineFacts[with[k]].bullet]

\* C21: in every entry the work-experience state machine emits, title and
\* company are those of the first matching line at or after the entry's
\* date line and before the next date line (a later matching line never
\* overwrites them), and its bullets are the bullet lines between its date
\* line and the next, in text order; title, company and bullet lines before
\* the first date line belong to no entry
C21_FirstMatchWins ==
    (CalledScore /\ inp.kind = "str") =>
        LET result == _extract_work_experience(FullLines(inp.text))
        IN  ~result.raised =>
              /\ Len(result.entries) = Cardinality(DatePlaces)
              /\ \A i \in 1..Len(result.entries) :
                     /\ result.entries[i].title = FirstTitle(EntryLines(i))
                     /\ result.entries[i].company = FirstCompany(EntryLines(i))
                     /\ result.entries[i].bullet_points = BulletsOf(EntryLines(i))

\* an entry kept the company of its first matching line though a later line
\* of the same entry matches the company pattern too
C21_Witness ==
    /\ CalledScore /\ inp.kind = "str"
    /\ inp.text = [lines |-> <<"Jan 2020 - Present", "Senior Software Engineer at Acme Corp",
                               "Experience and Education">>, pad |-> 0]
    /\ ~_extract_work_experience(FullLines(inp.text)).raised
    /\ _extract_work_experience(FullLines(inp.text)).entries[1].company = "Acme Corp"
    /\ _extract_work_experience(FullLines(inp.text)).entries[1].title = "Senior Software Engineer"

\* a title line and a bullet line before the only date line were dropped
C21_WitnessBefore ==
    /\ CalledScore /\ inp.kind = "str"
    /\ inp.text = [lines |-> <<"Senior Software Engineer at Acme Corp",
                               "- Increased throughput by 30%", "Mar 2017 -">>, pad |-> 0]
    /\ _extract_work_experience(FullLines(inp.text)).entries[1].title = None
    /\ _extract_work_experience(FullLines(inp.text)).entries[1].bullet_points = <<>>

(***************************************************************************)
(* Properties of the formatting score                                      *)
(***************************************************************************)
\* the resumes of the input domain with 20 to 60 non-blank lines that hold
\* the Experience, Education and Skills headers
LongResumes ==
    {t \in [lines : SeqsUpTo(AtsLines, MaxLines), pad : {20}] :
        /\ {"experience", "education", "skills"}
               \subseteq UNION {LineFacts[t.lines[i]].headers : i \in 1..Len(t.lines)}
        /\ Cardinality({i \in 1..Len(FullLines(t)) : FullLines(t)[i] # BlankLine}) \in 20..60}

\* what _score_formatting tests and returns for a resume
FormattingOf(t) ==
    [flags |-> FormattingFlags(FormattingFacts(FullLines(t))),
     score |-> _score_formatting(FullLines(t)).score]

FormattingOfLong == {FormattingOf(t) : t \in LongResumes}

\* the input has fewer than 20 non-blank lines and no section header
ShortWithoutHeaders ==
    /\ inp.kind = "str"
    /\ Cardinality({i \in 1..Len(FullLines(inp.text)) :
                       FullLines(inp.text)[i] # BlankLine}) < 20
    /\ \A i \in 1..Len(inp.text.lines) : LineFacts[inp.text.lines[i]].headers = {}

\* C16: the formatting sub-score of a resume with fewer than 20 non-blank
\* lines and no section header is strictly less than that of every resume
\* with 20 to 60 non-blank lines and the Experience, Education and Skills
\* headers that agrees with it on bullet styles, spacing and all-caps
\* lines; and every formatting sub-score lies in [0, 100]
C16_ShortScoresLess ==
    (CalledScore /\ inp.kind = "str") =>
        /\ FormattingOf(inp.text).score >= 0
        /\ FormattingOf(inp.text).score <= 100 * SubDen
        /\ ShortWithoutHeaders =>
               \A long \in FormattingOfLong :
                   (/\ long.flags.mixed_bullets = FormattingOf(inp.text).flags.mixed_bullets
                    /\ long.flags.bad_spacing = FormattingOf(inp.text).flags.bad_spacing
                    /\ long.flags.too_many_caps = FormattingOf(inp.text).flags.too_many_caps)
                   => FormattingOf(inp.text).score < long.score

\* a short resume without headers was scored, and a long resume with the
\* three headers agrees with it on bullets, spacing and capitals
C16_Witness ==
    /\ CalledScore /\ ShortWithoutHeaders
    /\ inp.text = [lines |-> <<"- Increased throughput by 30%", PlainLine>>, pad |-> 0]
    /\ FormattingOf(inp.text).score = 35 * SubDen
    /\ \E t \in LongResumes :
           /\ t.lines = <<"Experience and Education", "- Increased throughput by 30%",
                          "Skills: Python, Java, Go, Rust, Django, Flask, React, SQL, MySQL, Redis, AWS, Azure, Docker, Agile, Scrum">>
           /\ FormattingOf(t).flags.bad_spacing
           /\ ~FormattingOf(t).flags.mixed_bullets
           /\ FormattingOf(t).score = 55 * SubDen

(***************************************************************************)
(* Properties of the loaders of reference data                             *)
(***************************************************************************)
\* C17: load_career_data and load_question_bank never raise; they return
\* the built-in default table whenever the data file is absent, unreadable
\* or not valid JSON, and the content of the file only when it exists and
\* parses
C17_LoadersFallBack ==
    /\ op = "load_career_data" =>
           /\ out.status = "returned"
           /\ out.value = IF inp.file = "valid" THEN CareerFile ELSE career_data
           /\ load_career_data(inp.file) = out.value
    /\ op = "load_question_bank" =>
           /\ out.status = "returned"
           /\ out.value = IF inp.file = "valid" THEN QuestionFile ELSE question_bank
           /\ load_question_bank(inp.file) = out.value

\* a file that is no valid JSON was met and the built-in bank returned
C17_Witness ==
    /\ op = "load_question_bank"
    /\ inp.file = "invalid"
    /\ out.status = "returned"
    /\ Len(out.value.algorithms) = 2

(***************************************************************************)
(* Properties of the resume analysis                                       *)
(***************************************************************************)
CalledAnalyze == op = "analyze_resume"

\* the summary generate_professional_summary makes of the data returned
SummaryOfReturned ==
    generate_professional_summary(
        [skills |-> out.skills, experiences |-> out.experiences,
         education |-> out.education], out.experiences)

\* C18: analyze_resume never raises, and when one sub-step fails the
\* results of the other sub-steps are in the ResumeData returned: the
\* experiences are those extract_experience finds, and the summary is the
\* one generate_professional_summary makes of the data returned unless the
\* summary step is the one that failed
C18_SubStepsIndependent ==
    CalledAnalyze =>
        /\ out.status = "returned"
        /\ inp.text.kind = "str" =>
               out.experiences = SubSeq(extract_experience(inp.text.toks), 1,
                                        Min(5, Len(extract_experience(inp.text.toks))))
        /\ (out.failed # None /\ out.failed # "summary") =>
               /\ ~SummaryOfReturned.raised
               /\ out.summary # None
               /\ out.summary = SummaryOfReturned.summary

\* C19: for every text the ResumeData analyze_resume returns carries a
\* professional summary that is a non-empty string, also when a
\* work-experience entry is extracted from the text; and it holds at most
\* 5 experience entries and at most 3 education entries
C19_SummaryAlwaysPresent ==
    (CalledAnalyze /\ inp.text.kind = "str") =>
        /\ out.status = "returned"
        /\ out.summary # None
        /\ out.summary # <<>>
        /\ Len(out.experiences) <= 5
        /\ Len(out.education) <= 3

(***************************************************************************)
(* The work-experience scorer on its own: _score_work_experience on texts  *)
(* of positions and bullets, followed by a run of equal bullet lines.      *)
(***************************************************************************)
MaxWorkLines == 4

\* the length of the run of bullet lines a text can end with
TailBullets == 10

MetricBullet == "- Increased throughput by 30%"

TechBullet == "- Built REST services with Python"

WorkLines ==
    PositionLines \cup {"Mar 2017 -", "Jan 2018 - Dec 2019", MetricBullet, TechBullet}

WorkTails == {"none", "metrics", "tech"}

TailLines(tail) ==
    CASE tail = "metrics" -> [i \in 1..TailBullets |-> MetricBullet]
      [] tail = "tech" -> [i \in 1..TailBullets |-> TechBullet]
      [] OTHER -> <<>>

\* the lines of the text the scorer is called with
WorkText(t) == t.lines \o TailLines(t.tail)

InitWork ==
    /\ op = "init"
    /\ inp \in [kind : {"work"}, lines : SeqsUpTo(WorkLines, MaxWorkLines),
                tail : WorkTails]
    /\ out = NoOutput

\* ATSScorer()._score_work_experience(text)
ScoreWorkExperience ==
    /\ op = "init"
    /\ op' = "_score_work_experience"
    /\ inp' = inp
    /\ out' = LET r == _score_work_experience(WorkText(inp))
              IN  IF r.raised
                  THEN [status |-> "raised", exc |-> "IndexError", value |-> None]
                  ELSE [status |-> "returned", exc |-> None, value |-> r.result]

NextWork == ScoreWorkExperience

SpecWork == InitWork /\ [][NextWork]_vars

CalledWork == op = "_score_work_experience"

WorkReturned == CalledWork /\ out.status = "returned"

\* the entries the call extracted
WorkEntries == _extract_work_experience(WorkText(inp)).entries

\* the bullets of all entries, in order
WorkBullets == AllBullets(WorkEntries)

MetricCount ==
    Cardinality({i \in 1..Len(WorkBullets) : WorkBullets[i].has_metrics})

VerbCount ==
    Cardinality({WorkBullets[i].action_verb : i \in 1..Len(WorkBullets)} \ {None})

\* C22: a returning call scores the sum of its five parts, each within its
\* cap (20, 20, 30, 20, 10), so the sum is within 0..100; without an entry the
\* score and every part are 0; the achievements part is
\* min(30, 3 * bullets with a metric + unique action verbs + 5 when there are
\* three or more bullets)
C22_WorkScoreIsCappedSum ==
    WorkReturned =>
        LET b == out.value.breakdown
        IN  /\ out.value.score
                 = SubDen * (b.position_details + b.career_progression
                             + b.achievements + b.technical_depth + b.formatting)
            /\ b.position_details \in 0..20
            /\ b.career_progression \in 0..20
            /\ b.achievements \in 0..30
            /\ b.technical_depth \in 0..20
            /\ b.formatting \in 0..10
            /\ out.value.score \in 0..(100 * SubDen)
            /\ WorkEntries = <<>> => out.value.score = 0 /\ b = ZeroBreakdown
            /\ WorkEntries # <<>> =>
                   b.achievements
                     = Min(30, 3 * MetricCount + VerbCount
                               + (IF Len(WorkBullets) >= 3 THEN 5 ELSE 0))

\* a position followed by ten bullets with a metric: 31 + 5 is cut to 30
C22_Witness ==
    /\ WorkReturned
    /\ Len(WorkBullets) >= 3
    /\ 3 * MetricCount + VerbCount + 5 > 30
    /\ out.value.breakdown.achievements = 30

\* three bullets earn the bonus below the cap
C22_WitnessBonus ==
    /\ WorkReturned
    /\ Len(WorkBullets) = 3
    /\ out.value.breakdown.achievements = 3 * MetricCount + VerbCount + 5
    /\ out.value.breakdown.achievements < 30

\* no entry: the all-zero result
C22_WitnessNoEntry ==
    /\ WorkReturned
    /\ inp.lines # <<>>
    /\ WorkEntries = <<>>
    /\ out.value.score = 0

IsTitled(exp) == exp.title # None

\* the entries the progression loop does not skip
TitledEntries == SelectSeq(WorkEntries, IsTitled)

\* the consecutive pairs of titled entries whose level rises
LevelIncreases ==
    Cardinality({i \in 1..(Len(TitledEntries) - 1) :
                    CurrentLevel(TitledEntries[i + 1].title)
                      > CurrentLevel(TitledEntries[i].title)})

\* C23: a returning call scores career_progression min(20, 5 * k), k the
\* number of consecutive pairs of titled entries whose seniority level
\* rises; entries without such a rise score 0
C23_ProgressionCountsIncreases ==
    WorkReturned =>
        out.value.breakdown.career_progression = Min(20, 5 * LevelIncreases)

(***************************************************************************)
(* The skills scorer on its own: _score_skills on texts of section         *)
(* headers, bullets and plain lines, followed by a run of bullet lines.    *)
(***************************************************************************)
MaxSkillLines == 3

\* the longest run of bullet lines a text can end with
MaxSkillTail == 6

SkillLines ==
    {BlankLine, PlainLine, MetricBullet, TechBullet, "Skills: ,", "Skills: Python",
     "Skills: Python, Java, Go, Rust",
     "Skills: Python, Java, Go, Rust, Django, Flask, React, SQL, MySQL, Redis, AWS, Azure, Docker, Agile, Scrum"}

\* the lines of the text the scorer is called with
SkillsText(t) == t.lines \o [i \in 1..t.tail |-> MetricBullet]

InitSkills ==
    /\ op = "init"
    /\ inp \in [kind : {"skills"}, lines : SeqsUpTo(SkillLines, MaxSkillLines),
                tail : 0..MaxSkillTail]
    /\ out = NoOutput

\* ATSScorer()._score_skills(text)
ScoreSkills ==
    /\ op = "init"
    /\ op' = "_score_skills"
    /\ inp' = inp
    /\ out' = [status |-> "returned", exc |-> None,
               value |-> _score_skills(SkillsText(inp))]

NextSkills == ScoreSkills

SpecSkills == InitSkills /\ [][NextSkills]_vars

CalledSkills == op = "_score_skills"

\* a dedicated skills section was found
SectionFound == SkillsHeaderAt(SkillsText(inp)) # 0

\* the number of separated entries of the section
SectionEntries == SkillCount(SkillsText(inp), SkillsHeaderAt(SkillsText(inp)))

\* some catalog keyword occurs in the text
AnyCatalogKeyword == KeywordsFound(SkillsText(inp)) # {}

\* C24: with a section of n entries the sub-score is 0 for n = 0, 30 + 5n
\* for 1 <= n < 5, 40 + min(4n, 60) for 5 <= n <= 20 and 80 for n > 20;
\* without a section it is 50 when a catalog keyword occurs and 20
\* otherwise; it is always within 0..100
C24_SkillsScoreByCount ==
    CalledSkills =>
        /\ SectionFound =>
             LET n == SectionEntries
             IN  /\ n = 0 => out.value.score = 0
                 /\ (1 <= n /\ n < 5) => out.value.score = SubDen * (30 + 5 * n)
                 /\ (5 <= n /\ n <= 20) => out.value.score = SubDen * (40 + Min(4 * n, 60))
                 /\ n > 20 => out.value.score = SubDen * 80
        /\ ~SectionFound =>
             out.value.score = SubDen * (IF AnyCatalogKeyword THEN 50 ELSE 20)
        /\ out.value.score \in 0..(100 * SubDen)

\* twenty entries score 100
C24_Witness ==
    CalledSkills /\ SectionFound /\ SectionEntries = 20 /\ out.value.score = SubDen * 100

\* one more entry drops the score to 80
C24_WitnessMany ==
    CalledSkills /\ SectionFound /\ SectionEntries = 21 /\ out.value.score = SubDen * 80

C24_WitnessFew ==
    CalledSkills /\ SectionFound /\ SectionEntries = 4 /\ out.value.score = SubDen * 50

C24_WitnessFive ==
    CalledSkills /\ SectionFound /\ SectionEntries = 5 /\ out.value.score = SubDen * 60

C24_WitnessNone ==
    CalledSkills /\ SectionFound /\ SectionEntries = 0 /\ out.value.score = 0

C24_WitnessNoSection ==
    /\ CalledSkills /\ ~SectionFound /\ AnyCatalogKeyword
    /\ out.value.score = SubDen * 50

C24_WitnessNothing ==
    /\ CalledSkills /\ ~SectionFound /\ ~AnyCatalogKeyword /\ inp.lines # <<>>
    /\ out.value.score = SubDen * 20

(***************************************************************************)
(* Properties of _calculate_keyword_overlap.                               *)
(***************************************************************************)
CalledOverlap == op = "_calculate_keyword_overlap"

\* the qualifying words of the two texts
JdWords == KeywordsOf(inp.jd_text)

ResumeWords == KeywordsOf(inp.resume_text)

MatchedSet == Range(out.keyword_overlap)

MissingSet == Range(out.missing_keywords)

\* the properties of the tuple returned; the score is in percent
OverlapPartition ==
    /\ out.match_score
         = (IF JdWords = {} THEN 0
            ELSE (Cardinality(MatchedSet) * 100) \div Cardinality(JdWords))
    /\ out.match_score \in 0..100
    /\ Len(out.keyword_overlap) = Cardinality(MatchedSet)
    /\ Len(out.missing_keywords) = Cardinality(MissingSet)
    /\ MatchedSet \cap MissingSet = {}
    /\ MatchedSet \cup MissingSet = JdWords
    /\ (ResumeWords \cap JdWords) \subseteq MatchedSet
    /\ \A w \in MatchedSet :
           w \in ResumeWords \/ \E x \in ResumeWords : ReachesCutoff(x, w)

\* C25 as stated: for every pair of texts the score is |matched| / |jd_words|
\* within [0, 1], matched and missing are disjoint and together the
\* qualifying JD words, every exact match is matched and every matched word
\* equals a resume word or is fuzzy-close to one
C25_PartitionForEveryPair == CalledOverlap => OverlapPartition

\* C25 amended: the same for every pair of non-empty texts; when either text
\* is empty the result is score 0 with both lists empty
C25_PartitionForNonEmptyTexts ==
    CalledOverlap =>
        IF inp.resume_text # <<>> /\ inp.jd_text # <<>>
        THEN OverlapPartition
        ELSE out.match_score = 0 /\ out.keyword_overlap = <<>>
             /\ out.missing_keywords = <<>>

\* a JD word matched by fuzzy similarity only, next to a missing one
C25_Witness ==
    /\ CalledOverlap
    /\ inp.resume_text # <<>> /\ inp.jd_text # <<>>
    /\ \E w \in MatchedSet : w \notin ResumeWords
    /\ MissingSet # {}
    /\ out.match_score = 50

\* an empty resume against a JD with qualifying words
C25_WitnessEmpty ==
    /\ CalledOverlap
    /\ inp.resume_text = <<>> /\ JdWords # {}
    /\ out.missing_keywords = <<>>

\* C26: the result of a call is the result under every order in which the
\* unmatched JD words can be visited
C26_OrderIndependent ==
    CalledOverlap =>
        \A order \in Orders(RemainingJd(inp.resume_text, inp.jd_text)) :
            out = AsOutput(_calculate_keyword_overlap(inp.resume_text, inp.jd_text, order))

(***************************************************************************)
(* Properties of calculate_match_score.                                    *)
(***************************************************************************)
CalledMatchScore == op = "calculate_match_score"

\* the position relevance of the required skill at place i (from 1), in
\* twentieths: 1 - 0.05 * index
Relevance(i) == 20 - (i - 1)

\* the relevances of the matched and of all required skills
MatchedRelevance ==
    SumSeq([i \in 1..Len(inp.career.required_skills) |->
              IF inp.career.required_skills[i] \in inp.resume_skills
              THEN Relevance(i) ELSE 0])

TotalRelevance ==
    SumSeq([i \in 1..Len(inp.career.required_skills) |-> Relevance(i)])

PreferredFound ==
    Cardinality(Range(inp.career.preferred_skills) \cap inp.resume_skills)

PreferredCount == Len(inp.career.preferred_skills)

\* 0.6 * weighted_match + 0.3 * (fraction of preferred skills found), as a
\* fraction over 10 * TotalRelevance * PreferredCount, capped at 1
StatedScore ==
    IF PreferredCount = 0
    THEN Frac(Min(6 * MatchedRelevance, 10 * TotalRelevance), 10 * TotalRelevance)
    ELSE Frac(Min(6 * MatchedRelevance * PreferredCount
                    + 3 * PreferredFound * TotalRelevance,
                  10 * TotalRelevance * PreferredCount),
              10 * TotalRelevance * PreferredCount)

\* C27: for a profile with required skills the score is
\* min(1.0, 0.6 * weighted_match + 0.3 * preferred_bonus), preferred_bonus
\* being the fraction of preferred skills found; a resume with every
\* required and every preferred skill scores 0.9
C27_StatedFormula ==
    (CalledMatchScore /\ inp.career.required_skills # <<>>) =>
        /\ out.value.score = StatedScore
        /\ (Range(inp.career.required_skills) \subseteq inp.resume_skills
              /\ PreferredCount > 0
              /\ Range(inp.career.preferred_skills) \subseteq inp.resume_skills)
             => out.value.score = Frac(9, 10)

(***************************************************************************)
(* Properties of analyze_experience_level.                                 *)
(***************************************************************************)
CalledLevel == op = "analyze_experience_level"

\* the pieces of the text with an `N years experience' number
YearPlaces ==
    {i \in 1..Len(inp.resume_text.toks) : CvFacts[inp.resume_text.toks[i]].years >= 0}

\* the extracted number, 0 when absent
ExtractedYears ==
    IF YearPlaces = {} THEN 0
    ELSE CvFacts[inp.resume_text.toks[CHOOSE i \in YearPlaces :
                                        \A j \in YearPlaces : i <= j]].years

LeadershipPresent ==
    \E i \in 1..Len(inp.resume_text.toks) : CvFacts[inp.resume_text.toks[i]].leadership

IsSeniorCase == ExtractedYears >= 10 \/ (LeadershipPresent /\ ExtractedYears >= 5)

IsMidCase == ~IsSeniorCase /\ (ExtractedYears >= 2 \/ LeadershipPresent)

C28_WitnessMid ==
    CalledLevel /\ LeadershipPresent /\ ExtractedYears = 0 /\ out.value = "mid"

\* five years without a leadership term make a mid
C28_WitnessYears ==
    CalledLevel /\ ~LeadershipPresent /\ ExtractedYears = 5 /\ out.value = "mid"

C28_WitnessEntry ==
    /\ CalledLevel /\ inp.resume_text.toks # <<>> /\ out.value = "entry"

(***************************************************************************)
(* Properties of the pool of generate_questions.                           *)
(***************************************************************************)
\* the call got past the guard and returned: a pool was built
PoolBuilt ==
    /\ CalledGenerate
    /\ inp.resume_text.kind = "str" /\ inp.resume_text.toks # <<>>
    /\ out.status = "returned"

\* the bank the call loaded
BankUsed == load_question_bank(inp.file)

PoolSet == Range(out.pool)

\* a seniority keyword, or a years-of-experience number of 3 or more
ShowsSeniority ==
    \/ \E i \in 1..Len(inp.resume_text.toks) : CvFacts[inp.resume_text.toks[i]].senior_role
    \/ \E i \in 1..Len(inp.resume_text.toks) :
          /\ CvFacts[inp.resume_text.toks[i]].years_plus >= 3
          /\ \A j \in 1..(i - 1) : CvFacts[inp.resume_text.toks[j]].years_plus < 0

\* C29: the pool of a call that returns holds every algorithms and every
\* behavioral question of the bank, and the system-design questions of the
\* bank exactly when the resume shows seniority; with a difficulty d other
\* than 'all' every question returned has difficulty d or 'all'
C29_PoolAndDifficulty ==
    PoolBuilt =>
        /\ Range(BankUsed.algorithms) \subseteq PoolSet
        /\ Range(BankUsed.behavioral) \subseteq PoolSet
        /\ {q \in PoolSet : q.category = "System Design"}
             = (IF ShowsSeniority THEN Range(BankUsed.system_design) ELSE {})
        /\ inp.difficulty # "all" =>
             \A i \in 1..Len(out.value) :
                 out.value[i].difficulty \in {inp.difficulty, "all"}

\* three years of experience bring the system-design questions, and the
\* filter for advanced questions returns them
C29_Witness ==
    /\ PoolBuilt
    /\ ShowsSeniority
    /\ ~(\E i \in 1..Len(inp.resume_text.toks) :
            CvFacts[inp.resume_text.toks[i]].senior_role)
    /\ inp.difficulty = "advanced"
    /\ \E i \in 1..Len(out.value) : out.value[i].category = "System Design"
    /\ \E q \in PoolSet : q.difficulty \notin {"advanced", "all"}

\* no seniority: algorithms and behavioral questions only
C29_WitnessJunior ==
    /\ PoolBuilt /\ ~ShowsSeniority /\ inp.file = "absent"
    /\ PoolSet = Range(question_bank.algorithms) \cup Range(question_bank.behavioral)

\* the technologies detected in the resume
Detected == extract_technologies(inp.resume_text.toks)

DetectedLanguages == {p[2] : p \in {p \in Detected : p[1] = "programming_languages"}}

DataScienceDetected == \E p \in Detected : p[1] = "data_science"

\* C30: with a technology detected the call returns a list; its pool holds
\* the questions of each detected language the bank has, and data-science
\* questions exactly when data-science skills were detected
C30_ReturnsWithTechnologies ==
    (CalledGenerate /\ inp.resume_text.kind = "str" /\ Detected # {}) =>
        /\ out.status = "returned"
        /\ \A l \in DetectedLanguages \cap DOMAIN BankUsed.programming_languages :
               Range(BankUsed.programming_languages[l]) \subseteq PoolSet
        /\ (DataScienceDetected /\ BankUsed.data_science # <<>>)
             <=> \E q \in PoolSet : q \in Range(BankUsed.data_science)

====
